---- MODULE Spec2Model ----
(***************************************************************************)
(* A model of the payment reconciliation core of franktech-backend:        *)
(* the M-Pesa callback (routes/mpesa.js), the wallet routes                *)
(* (routes/wallet.js) and the tournament join / leave routes               *)
(* (routes/tournament.js) over the Mongoose collections Payment,           *)
(* Transaction, Wallet and Tournament.                                     *)
(*                                                                         *)
(* Every route handler is an async function.  The code from one `await`    *)
(* to the next runs without interruption on the Node event loop, and the   *)
(* awaited store operation takes effect atomically in MongoDB, so one      *)
(* action of the model is: the awaited store operation, followed by the    *)
(* synchronous code up to the next await (or to the response).  Handlers   *)
(* of different requests interleave at their awaits.                       *)
(***************************************************************************)
EXTENDS Integers, Sequences, FiniteSets, TLC

(* ------------------------------ bounds ------------------------------- *)

\* Requests served at the same time (request slots).
MaxConc == 2
\* Requests accepted in one behaviour.
MaxStarted == 2
\* Balance of the wallet that exists at the start.
InitBalance == 3
\* Amount asked for when the stored STK push was initiated.
RequestedAmount == 1
\* Amount the provider reports as settled in a success callback.
SettledAmount == 2
\* Entry fee of the stored tournament.
EntryFee == 2
\* maxPlayers of the stored tournament (the schema requires at least 2).
MaxPlayers == 2

\* The largest amount a push payment may carry.
MaxPushAmount == 70000
\* The tries of createWithRetry.
Retries == 3

Reqs == 1..MaxConc

Users == {"u1", "u2"}

\* CheckoutRequestIDs: "ws_1" is the one of the stored payment, "ws_9" is
\* one no Payment record carries.
CheckoutIds == {"ws_1", "ws_9"}

ResultDescs == {"cancelled by user", "insufficient funds"}

(* --------------------------- JavaScript values ----------------------- *)

Null == [t |-> "null"]
Num(n) == [t |-> "num", v |-> n]
Str(s) == [t |-> "str", v |-> s]

\* !x is false exactly for the truthy values: a non-zero number, a
\* non-empty string.
Truthy(x) ==
  \/ x.t = "num" /\ x.v # 0
  \/ x.t = "str" /\ x.v # ""

\* parseFloat of a number value is that number; the callbacks of the model
\* carry numeric amounts only.
parseFloat(x) == x.v

(* ------------------------------ documents ---------------------------- *)

\* The absent ObjectId / the result of a findOne that matches nothing.
NoId == 0

None == [t |-> "none"]

VARIABLES
  nodeEnv,       \* process.env.NODE_ENV
  payments,      \* the Payment collection, in insertion order (_id = index)
  transactions,  \* the Transaction collection (_id = index)
  wallets,       \* the Wallet collection (_id = index)
  tournaments,   \* the Tournament collection (_id = index)
  pushes,        \* the push-payment requests the provider has received
  req,           \* the request slots: handler, position, input, locals, response
  started        \* number of requests accepted so far

vars ==
  <<nodeEnv, payments, transactions, wallets, tournaments, pushes, req, started>>

Idle ==
  [kind |-> "idle", pc |-> "idle", in |-> None, loc |-> None, res |-> None,
   exit |-> "-"]

\* Model.findOne(filter): of the documents that match (given by their
\* _ids), the first in natural order; NoId (null) if none matches.
findOne(matching) ==
  IF matching = {} THEN NoId
  ELSE CHOOSE i \in matching : \A j \in matching : i <= j

\* A lookup that ignores the reference and returns the first Payment.
FindPaymentIgnoringReference(id) ==
  IF payments # <<>> THEN 1 ELSE NoId

\* Payment.findOne({ checkoutRequestId })
FindPaymentByCheckout(id) ==
  findOne({i \in DOMAIN payments : payments[i].checkoutRequestId = id})

\* Wallet.findOne({ userId })
FindWalletByUser(u) ==
  findOne({i \in DOMAIN wallets : wallets[i].userId = u})

\* The balance the wallet routes would report for a user (0 without wallet).
BalanceOf(u) ==
  IF FindWalletByUser(u) = NoId THEN 0 ELSE wallets[FindWalletByUser(u)].balance

(* ---------------------------- wallet.save() -------------------------- *)

\* The local Wallet document of a handler: wid = NoId for `new Wallet(..)`.
\* save() validates (balance: min 0), then inserts a new document (the
\* unique index on userId rejects a second wallet of a user) or writes the
\* local balance of an existing one ($set).
WalletSaveOk(w) ==
  /\ w.balance >= 0
  /\ w.wid = NoId => FindWalletByUser(w.userId) = NoId

WalletSaved(w) ==
  IF w.wid = NoId
  THEN Append(wallets, [userId |-> w.userId, balance |-> w.balance])
  ELSE [wallets EXCEPT ![w.wid].balance = w.balance]

(* ------------------------------ responses ---------------------------- *)

\* res.status(200).json({ ResultCode: 0, ResultDesc: "Success" })
sendSuccessResponse == [status |-> 200, ResultCode |-> 0]

Unauthorized == [status |-> 401, ResultCode |-> 1]

\* The handler sends its response from the return statement named `exit`.
Finish(r, response, exit) ==
  req' = [req EXCEPT ![r] =
            [@ EXCEPT !.pc = "done", !.res = response, !.exit = exit]]

Goto(r, label, locals) ==
  req' = [req EXCEPT ![r] = [@ EXCEPT !.pc = label, !.loc = locals]]

(* ------------------------- POST /callback ---------------------------- *)

\* A check that lets every callback pass.
verifyCallbackSignatureOff(in) == TRUE

\* verifyCallbackSignature(req): outside production every callback passes;
\* in production the two Safaricom headers must be present.
verifyCallbackSignature(in) ==
  IF nodeEnv # "production" THEN TRUE ELSE in.headers

\* CallbackMetadata.Item as delivered: a list of { Name, Value }.
ItemAmount == [Name |-> "Amount", Value |-> Num(SettledAmount)]
ItemReceipt == [Name |-> "MpesaReceiptNumber", Value |-> Str("RCPT1")]

MetadataItems ==
  { <<>>, <<ItemAmount>>, <<ItemReceipt>>, <<ItemAmount, ItemReceipt>> }

\* extractMetadata(name): the Value of the first item of that Name, or null.
RECURSIVE ExtractFrom(_, _, _)
ExtractFrom(items, name, i) ==
  IF i > Len(items) THEN Null
  ELSE IF items[i].Name = name THEN items[i].Value
  ELSE ExtractFrom(items, name, i + 1)

extractMetadata(items, name) == ExtractFrom(items, name, 1)

\* The signature headers of a request: present or not.  Outside production
\* verifyCallbackSignature returns before it reads them, so one value
\* stands for both there.
HeaderChoices == IF nodeEnv = "production" THEN BOOLEAN ELSE {TRUE}

\* The request bodies the endpoint is sent.
MalformedCallbacks ==
  [headers : HeaderChoices, body : {"none", "nostk"}, ResultCode : {0},
   ResultDesc : {"-"}, CheckoutRequestID : {"-"},
   hasMetadata : {FALSE}, Item : {<<>>}]

FailureCallbacks ==
  [headers : HeaderChoices, body : {"stk"}, ResultCode : {1032},
   ResultDesc : ResultDescs, CheckoutRequestID : CheckoutIds,
   hasMetadata : {FALSE}, Item : {<<>>}]

SuccessCallbacks ==
  [headers : HeaderChoices, body : {"stk"}, ResultCode : {0},
   ResultDesc : {"ok"}, CheckoutRequestID : CheckoutIds,
   hasMetadata : {TRUE}, Item : MetadataItems]
  \cup
  [headers : HeaderChoices, body : {"stk"}, ResultCode : {0},
   ResultDesc : {"ok"}, CheckoutRequestID : CheckoutIds,
   hasMetadata : {FALSE}, Item : {<<>>}]

CallbackInputs == MalformedCallbacks \cup FailureCallbacks \cup SuccessCallbacks

\* A free slot takes the next request: the lowest idle slot.
CanStart(r) ==
  /\ req[r].kind = "idle"
  /\ \A q \in Reqs : q < r => req[q].kind # "idle"
  /\ started < MaxStarted

\* The handler up to its first await: signature and body checks.
CallbackReceive(r, in) ==
  /\ CanStart(r)
  /\ started' = started + 1
  /\ LET fresh == [kind |-> "callback", pc |-> "findPayment", in |-> in,
                   loc |-> None, res |-> None, exit |-> "-"]
         Answer(response, exit) ==
           [fresh EXCEPT !.pc = "done", !.res = response, !.exit = exit]
     IN  IF ~verifyCallbackSignature(in)
         THEN req' = [req EXCEPT ![r] = Answer(Unauthorized, "unauthorized")]
         ELSE IF in.body = "none"
         THEN req' = [req EXCEPT ![r] = Answer(sendSuccessResponse, "noBody")]
         ELSE IF in.body = "nostk"
         THEN req' = [req EXCEPT ![r] = Answer(sendSuccessResponse, "noStkCallback")]
         ELSE req' = [req EXCEPT ![r] = fresh]
  /\ UNCHANGED <<nodeEnv, pushes, payments, transactions, wallets, tournaments>>

\* Settlement details made up when the callback does not carry them.
PaymentDetailsGuessed(in) ==
  [amount |-> Num(RequestedAmount), mpesaReceiptNumber |-> Str("UNKNOWN")]

\* paymentDetails of a success callback.
PaymentDetails(in) ==
  [amount |-> extractMetadata(in.Item, "Amount"),
   mpesaReceiptNumber |-> extractMetadata(in.Item, "MpesaReceiptNumber")]

\* await Payment.findOne({ checkoutRequestId }) and the code up to the
\* next await: not found, the failure branch, the metadata checks.
CallbackFindPayment(r) ==
  /\ req[r].kind = "callback" /\ req[r].pc = "findPayment"
  /\ LET in == req[r].in
         pid == FindPaymentByCheckout(in.CheckoutRequestID)
         payment == [id |-> pid, userId |-> payments[pid].userId,
                     status |-> payments[pid].status,
                     transactionId |-> payments[pid].transactionId]
         details == PaymentDetails(in)
     IN  IF pid = NoId THEN Finish(r, sendSuccessResponse, "notFound")
         ELSE IF in.ResultCode # 0
         THEN Goto(r, "failPayment", [payment |-> payment])
         ELSE IF ~in.hasMetadata THEN Finish(r, sendSuccessResponse, "noMetadata")
         ELSE IF ~Truthy(details.mpesaReceiptNumber) \/ ~Truthy(details.amount)
         THEN Finish(r, sendSuccessResponse, "missingDetails")
         ELSE Goto(r, "updatePayment", [payment |-> payment, details |-> details])
  /\ UNCHANGED <<nodeEnv, pushes, payments, transactions, wallets, tournaments, started>>

\* A failure branch that marks the Payment failed but drops the reason.
CallbackFailPaymentWithoutReason(r) ==
  /\ req[r].kind = "callback" /\ req[r].pc = "failPayment"
  /\ LET payment == req[r].loc.payment IN
       /\ payments' = [payments EXCEPT ![payment.id].status = "failed"]
       /\ IF payment.transactionId # NoId
          THEN Goto(r, "failTransaction", req[r].loc)
          ELSE Finish(r, sendSuccessResponse, "failed")
  /\ UNCHANGED <<nodeEnv, pushes, transactions, wallets, tournaments, started>>

\* Failure branch: await Payment.findByIdAndUpdate(.., { status: 'failed',
\* failureReason: ResultDesc }).
CallbackFailPayment(r) ==
  /\ req[r].kind = "callback" /\ req[r].pc = "failPayment"
  /\ LET payment == req[r].loc.payment IN
       /\ payments' = [payments EXCEPT ![payment.id] =
            [@ EXCEPT !.status = "failed", !.failureReason = req[r].in.ResultDesc]]
       /\ IF payment.transactionId # NoId
          THEN Goto(r, "failTransaction", req[r].loc)
          ELSE Finish(r, sendSuccessResponse, "failed")
  /\ UNCHANGED <<nodeEnv, pushes, transactions, wallets, tournaments, started>>

\* Failure branch: await Transaction.findByIdAndUpdate(.., { status: 'failed' }).
CallbackFailTransaction(r) ==
  /\ req[r].kind = "callback" /\ req[r].pc = "failTransaction"
  /\ LET tid == req[r].loc.payment.transactionId IN
       transactions' =
         IF tid \in DOMAIN transactions
         THEN [transactions EXCEPT ![tid].status = "failed"]
         ELSE transactions
  /\ Finish(r, sendSuccessResponse, "failed")
  /\ UNCHANGED <<nodeEnv, pushes, payments, wallets, tournaments, started>>

\* Success branch: await Payment.findByIdAndUpdate(.., { status: 'completed',
\* amount, mpesaReceiptNumber, .. }).
CallbackUpdatePayment(r) ==
  /\ req[r].kind = "callback" /\ req[r].pc = "updatePayment"
  /\ LET payment == req[r].loc.payment
         details == req[r].loc.details
     IN  payments' = [payments EXCEPT ![payment.id] =
            [@ EXCEPT !.status = "completed",
                      !.mpesaReceiptNumber = details.mpesaReceiptNumber.v,
                      !.amount = details.amount.v]]
  /\ Goto(r, "updateTransaction", req[r].loc)
  /\ UNCHANGED <<nodeEnv, pushes, transactions, wallets, tournaments, started>>

\* Success branch: await Transaction.findByIdAndUpdate(payment.transactionId,
\* { status: 'completed', referenceId, amount, .. }); a null result makes
\* `transaction._id` throw, which the catch answers.
CallbackUpdateTransaction(r) ==
  /\ req[r].kind = "callback" /\ req[r].pc = "updateTransaction"
  /\ LET tid == req[r].loc.payment.transactionId
         details == req[r].loc.details
     IN  IF tid \in DOMAIN transactions
         THEN /\ transactions' = [transactions EXCEPT ![tid] =
                   [@ EXCEPT !.status = "completed",
                             !.referenceId = details.mpesaReceiptNumber.v,
                             !.amount = details.amount.v]]
              /\ Goto(r, "findWallet", req[r].loc)
         ELSE /\ UNCHANGED transactions
              /\ Finish(r, sendSuccessResponse, "catch")
  /\ UNCHANGED <<nodeEnv, pushes, payments, wallets, tournaments, started>>

\* A wallet lookup that creates the missing wallet empty and drops the
\* amount.
CallbackFindWalletNewEmpty(r) ==
  /\ req[r].kind = "callback" /\ req[r].pc = "findWallet"
  /\ LET loc == req[r].loc
         u == loc.payment.userId
         wid == FindWalletByUser(u)
         amount == parseFloat(loc.details.amount)
         wallet == IF wid = NoId
                   THEN [wid |-> NoId, userId |-> u, balance |-> 0]
                   ELSE [wid |-> wid, userId |-> u,
                         balance |-> wallets[wid].balance + amount]
     IN  Goto(r, "saveWallet", [payment |-> loc.payment, details |-> loc.details,
                                wallet |-> wallet])
  /\ UNCHANGED <<nodeEnv, pushes, payments, transactions, wallets, tournaments, started>>

\* Success branch: await Wallet.findOne({ userId: payment.userId }), then
\* the local wallet: a new one holding the amount, or the found one with
\* the amount added to the balance it was read with.
CallbackFindWallet(r) ==
  /\ req[r].kind = "callback" /\ req[r].pc = "findWallet"
  /\ LET loc == req[r].loc
         u == loc.payment.userId
         wid == FindWalletByUser(u)
         amount == parseFloat(loc.details.amount)
         wallet == IF wid = NoId
                   THEN [wid |-> NoId, userId |-> u, balance |-> amount]
                   ELSE [wid |-> wid, userId |-> u,
                         balance |-> wallets[wid].balance + amount]
     IN  Goto(r, "saveWallet", [payment |-> loc.payment, details |-> loc.details,
                                wallet |-> wallet])
  /\ UNCHANGED <<nodeEnv, pushes, payments, transactions, wallets, tournaments, started>>

\* Success branch: await wallet.save(), then the acknowledgment.  A save
\* the store rejects throws into the catch, which acknowledges as well.
CallbackSaveWallet(r) ==
  /\ req[r].kind = "callback" /\ req[r].pc = "saveWallet"
  /\ LET wallet == req[r].loc.wallet IN
       IF WalletSaveOk(wallet)
       THEN wallets' = WalletSaved(wallet) /\ Finish(r, sendSuccessResponse, "processed")
       ELSE UNCHANGED wallets /\ Finish(r, sendSuccessResponse, "catch")
  /\ UNCHANGED <<nodeEnv, pushes, payments, transactions, started, tournaments>>

\* An awaited store operation of the callback rejects (connection lost,
\* timeout): the catch block logs and acknowledges.
CallbackAwaits ==
  {"findPayment", "failPayment", "failTransaction", "updatePayment",
   "updateTransaction", "findWallet", "saveWallet"}

\* A catch block that reports the error to the provider.
CallbackStoreErrorReported(r) ==
  /\ req[r].kind = "callback" /\ req[r].pc \in CallbackAwaits
  /\ Finish(r, [status |-> 500, ResultCode |-> 1], "catch")
  /\ UNCHANGED <<nodeEnv, pushes, payments, transactions, wallets, tournaments, started>>

\* A catch block that logs the error and sends nothing.
CallbackStoreErrorUnanswered(r) ==
  /\ req[r].kind = "callback" /\ req[r].pc \in CallbackAwaits
  /\ Goto(r, "caught", req[r].loc)
  /\ UNCHANGED <<nodeEnv, pushes, payments, transactions, wallets, tournaments, started>>

CallbackStoreError(r) ==
  /\ req[r].kind = "callback" /\ req[r].pc \in CallbackAwaits
  /\ Finish(r, sendSuccessResponse, "catch")
  /\ UNCHANGED <<nodeEnv, pushes, payments, transactions, wallets, tournaments, started>>

(* ------------------------- routes/wallet.js -------------------------- *)

\* res.status(n).json(..) of the wallet and tournament routes.
Status(n) == [status |-> n]

\* A slot that has just accepted a request of a route.
Fresh(kind, pc, in) ==
  [kind |-> kind, pc |-> pc, in |-> in, loc |-> None, res |-> None, exit |-> "-"]

\* A request answered before its first await.
Answered(fresh, response, exit) ==
  [fresh EXCEPT !.pc = "done", !.res = response, !.exit = exit]

\* Bodies of POST /add and POST /withdraw: uid "" is a missing uid, a string
\* amount is one whose typeof is not "number".
WalletInputs ==
  [uid : Users \cup {""},
   amount : {Num(0 - SettledAmount), Num(RequestedAmount), Num(SettledAmount),
             Str("2")}]

\* POST /add and POST /withdraw up to the first await: the body check.
WalletReceive(r, kind, in) ==
  /\ CanStart(r)
  /\ started' = started + 1
  /\ LET fresh == Fresh(kind, "findWallet", in) IN
       IF in.uid = "" \/ in.amount.t # "num"
       THEN req' = [req EXCEPT ![r] = Answered(fresh, Status(400), "badRequest")]
       ELSE req' = [req EXCEPT ![r] = fresh]
  /\ UNCHANGED <<nodeEnv, pushes, payments, transactions, wallets, tournaments>>

AddReceive(r, in) == WalletReceive(r, "add", in)

\* POST /add: await Wallet.findOne({ userId: uid }); wallet.balance += amount.
AddFindWallet(r) ==
  /\ req[r].kind = "add" /\ req[r].pc = "findWallet"
  /\ LET in == req[r].in
         wid == FindWalletByUser(in.uid)
     IN  IF wid = NoId THEN Finish(r, Status(404), "noWallet")
         ELSE Goto(r, "saveWallet",
                   [wallet |-> [wid |-> wid, userId |-> in.uid,
                                balance |-> wallets[wid].balance + in.amount.v]])
  /\ UNCHANGED <<nodeEnv, pushes, payments, transactions, wallets, tournaments, started>>

\* POST /add: await wallet.save(); a rejected save is answered 500.
AddSaveWallet(r) ==
  /\ req[r].kind = "add" /\ req[r].pc = "saveWallet"
  /\ LET wallet == req[r].loc.wallet IN
       IF WalletSaveOk(wallet)
       THEN wallets' = WalletSaved(wallet) /\ Finish(r, Status(200), "updated")
       ELSE UNCHANGED wallets /\ Finish(r, Status(500), "catch")
  /\ UNCHANGED <<nodeEnv, pushes, payments, transactions, tournaments, started>>

WithdrawReceive(r, in) == WalletReceive(r, "withdraw", in)

\* A withdrawal that takes what is there when the balance is short.
WithdrawFindWalletClamping(r) ==
  /\ req[r].kind = "withdraw" /\ req[r].pc = "findWallet"
  /\ LET in == req[r].in
         wid == FindWalletByUser(in.uid)
         left == wallets[wid].balance - in.amount.v
     IN  IF wid = NoId THEN Finish(r, Status(404), "noWallet")
         ELSE Goto(r, "saveWallet",
                   [wallet |-> [wid |-> wid, userId |-> in.uid,
                                balance |-> IF left < 0 THEN 0 ELSE left]])
  /\ UNCHANGED <<nodeEnv, pushes, payments, transactions, wallets, tournaments, started>>

\* POST /withdraw: await Wallet.findOne({ userId: uid }); the balance
\* check; wallet.balance -= amount.
WithdrawFindWallet(r) ==
  /\ req[r].kind = "withdraw" /\ req[r].pc = "findWallet"
  /\ LET in == req[r].in
         wid == FindWalletByUser(in.uid)
     IN  IF wid = NoId THEN Finish(r, Status(404), "noWallet")
         ELSE IF wallets[wid].balance < in.amount.v
         THEN Finish(r, Status(400), "insufficient")
         ELSE Goto(r, "saveWallet",
                   [wallet |-> [wid |-> wid, userId |-> in.uid,
                                balance |-> wallets[wid].balance - in.amount.v]])
  /\ UNCHANGED <<nodeEnv, pushes, payments, transactions, wallets, tournaments, started>>

\* POST /withdraw: await wallet.save().
WithdrawSaveWallet(r) ==
  /\ req[r].kind = "withdraw" /\ req[r].pc = "saveWallet"
  /\ LET wallet == req[r].loc.wallet IN
       IF WalletSaveOk(wallet)
       THEN wallets' = WalletSaved(wallet) /\ Finish(r, Status(200), "withdrawn")
       ELSE UNCHANGED wallets /\ Finish(r, Status(500), "catch")
  /\ UNCHANGED <<nodeEnv, pushes, payments, transactions, tournaments, started>>

(* ------------------------ GET /wallet/:userId ------------------------ *)

\* req.params.userId
WalletQueryInputs == [userId : Users]

WalletQueryReceive(r, in) ==
  /\ CanStart(r)
  /\ started' = started + 1
  /\ req' = [req EXCEPT ![r] = Fresh("walletQuery", "findWallet", in)]
  /\ UNCHANGED <<nodeEnv, pushes, payments, transactions, wallets, tournaments>>

\* let wallet = await Wallet.findOne({ userId }); without one, a new
\* Wallet of balance 0 is made to be saved.
WalletQueryFindWallet(r) ==
  /\ req[r].kind = "walletQuery" /\ req[r].pc = "findWallet"
  /\ LET u == req[r].in.userId
         wid == FindWalletByUser(u)
     IN  IF wid = NoId
         THEN Goto(r, "saveWallet",
                   [wallet |-> [wid |-> NoId, userId |-> u, balance |-> 0]])
         ELSE Goto(r, "findTransactions",
                   [wallet |-> [wid |-> wid, userId |-> u,
                                balance |-> wallets[wid].balance]])
  /\ UNCHANGED <<nodeEnv, pushes, payments, transactions, wallets, tournaments, started>>

\* await wallet.save() of the new wallet; an insert the unique index
\* rejects throws into the catch, answered 500.
WalletQuerySaveWallet(r) ==
  /\ req[r].kind = "walletQuery" /\ req[r].pc = "saveWallet"
  /\ LET wallet == req[r].loc.wallet IN
       IF WalletSaveOk(wallet)
       THEN wallets' = WalletSaved(wallet)
            /\ Goto(r, "findTransactions", req[r].loc)
       ELSE UNCHANGED wallets /\ Finish(r, Status(500), "catch")
  /\ UNCHANGED <<nodeEnv, pushes, payments, transactions, tournaments, started>>

\* await Transaction.find({ userId }) and the response, which reports the
\* balance of the local wallet.
WalletQueryFindTransactions(r) ==
  /\ req[r].kind = "walletQuery" /\ req[r].pc = "findTransactions"
  /\ Finish(r, [status |-> 200, balance |-> req[r].loc.wallet.balance],
            "answered")
  /\ UNCHANGED <<nodeEnv, pushes, payments, transactions, wallets, tournaments, started>>

(* ------------------------ models/Tournament.js ----------------------- *)

\* tournament.isFull()
isFull(t) == t.currentPlayers >= t.maxPlayers

\* tournament.isUserRegistered(userId)
isUserRegistered(t, u) == \E i \in DOMAIN t.players : t.players[i] = u

\* players.indexOf(userId), counting from 1; NoId when absent (-1 in JS).
indexOf(players, u) ==
  IF \E i \in DOMAIN players : players[i] = u
  THEN CHOOSE i \in DOMAIN players :
         players[i] = u /\ \A j \in 1..(i - 1) : players[j] # u
  ELSE NoId

\* players.splice(i, 1)
splice(players, i) ==
  SubSeq(players, 1, i - 1) \o SubSeq(players, i + 1, Len(players))

\* The pre-save hook: prizePool follows currentPlayers and entryFee.
preSave(t) == [t EXCEPT !.prizePool = t.currentPlayers * t.entryFee]

\* addPlayer up to its save(): the part that runs on the local document.
addPlayerLocal(t, u) ==
  [t EXCEPT !.players = Append(@, u), !.currentPlayers = @ + 1]

\* A removePlayer that splices the array and forgets the counter.
removePlayerKeepingCount(t, u) ==
  [t EXCEPT !.players = splice(@, indexOf(@, u))]

\* removePlayer up to its save().
removePlayerLocal(t, u) ==
  [t EXCEPT !.players = splice(@, indexOf(@, u)),
            !.currentPlayers = IF @ - 1 > 0 THEN @ - 1 ELSE 0]

(* ------------------- POST /:id/join, POST /:id/leave ------------------ *)

\* The tournament ids requests name: the stored one and an absent one.
TournamentIds == {1, 2}

\* req.user._id as set by the auth middleware, and req.params.id.
TournamentInputs == [user : Users, tid : TournamentIds]

JoinReceive(r, in) ==
  /\ CanStart(r)
  /\ started' = started + 1
  /\ req' = [req EXCEPT ![r] = Fresh("join", "findTournament", in)]
  /\ UNCHANGED <<nodeEnv, pushes, payments, transactions, wallets, tournaments>>

\* A join whose checks stop at the status: a registered user or a full
\* tournament goes on to the wallet.
JoinFindTournamentStatusOnly(r) ==
  /\ req[r].kind = "join" /\ req[r].pc = "findTournament"
  /\ LET in == req[r].in
         t == tournaments[in.tid]
     IN  IF in.tid \notin DOMAIN tournaments
         THEN Finish(r, Status(404), "noTournament")
         ELSE IF t.status # "upcoming" /\ t.status # "registration"
         THEN Finish(r, Status(400), "notJoinable")
         ELSE Goto(r, "findWallet", [tournament |-> t, statusModified |-> FALSE])
  /\ UNCHANGED <<nodeEnv, pushes, payments, transactions, wallets, tournaments, started>>

\* await Tournament.findById(tournamentId) and the four checks.
JoinFindTournament(r) ==
  /\ req[r].kind = "join" /\ req[r].pc = "findTournament"
  /\ LET in == req[r].in
         t == tournaments[in.tid]
     IN  IF in.tid \notin DOMAIN tournaments
         THEN Finish(r, Status(404), "noTournament")
         ELSE IF t.status # "upcoming" /\ t.status # "registration"
         THEN Finish(r, Status(400), "notJoinable")
         ELSE IF isUserRegistered(t, in.user)
         THEN Finish(r, Status(400), "alreadyJoined")
         ELSE IF isFull(t) THEN Finish(r, Status(400), "full")
         ELSE Goto(r, "findWallet", [tournament |-> t, statusModified |-> FALSE])
  /\ UNCHANGED <<nodeEnv, pushes, payments, transactions, wallets, tournaments, started>>

\* A join that debits whatever the balance is.
JoinFindWalletNoBalanceCheck(r) ==
  /\ req[r].kind = "join" /\ req[r].pc = "findWallet"
  /\ LET u == req[r].in.user
         t == req[r].loc.tournament
         wid == FindWalletByUser(u)
     IN  IF wid = NoId THEN Finish(r, Status(400), "noWallet")
         ELSE Goto(r, "saveWallet",
                   [tournament |-> t, statusModified |-> FALSE,
                    wallet |-> [wid |-> wid, userId |-> u,
                                balance |-> wallets[wid].balance - t.entryFee]])
  /\ UNCHANGED <<nodeEnv, pushes, payments, transactions, wallets, tournaments, started>>

\* await Wallet.findOne({ userId }), the balance check and
\* wallet.balance -= tournament.entryFee.
JoinFindWallet(r) ==
  /\ req[r].kind = "join" /\ req[r].pc = "findWallet"
  /\ LET u == req[r].in.user
         t == req[r].loc.tournament
         wid == FindWalletByUser(u)
     IN  IF wid = NoId THEN Finish(r, Status(400), "noWallet")
         ELSE IF wallets[wid].balance < t.entryFee
         THEN Finish(r, Status(400), "insufficient")
         ELSE Goto(r, "saveWallet",
                   [tournament |-> t, statusModified |-> FALSE,
                    wallet |-> [wid |-> wid, userId |-> u,
                                balance |-> wallets[wid].balance - t.entryFee]])
  /\ UNCHANGED <<nodeEnv, pushes, payments, transactions, wallets, tournaments, started>>

\* await wallet.save(), then tournament.addPlayer(userId) up to its save():
\* the checks on the local document, the push, the increment.
JoinSaveWallet(r) ==
  /\ req[r].kind = "join" /\ req[r].pc = "saveWallet"
  /\ LET u == req[r].in.user
         loc == req[r].loc
         t == loc.tournament
     IN  IF ~WalletSaveOk(loc.wallet)
         THEN UNCHANGED wallets /\ Finish(r, Status(500), "catch")
         ELSE /\ wallets' = WalletSaved(loc.wallet)
              /\ IF isFull(t) \/ isUserRegistered(t, u)
                 THEN Finish(r, Status(400), "addPlayerRejected")
                 ELSE Goto(r, "addPlayer",
                           [loc EXCEPT !.tournament = addPlayerLocal(t, u)])
  /\ UNCHANGED <<nodeEnv, pushes, payments, transactions, tournaments, started>>

\* The save() of addPlayer: $push of the user onto the stored players, $set
\* of the local currentPlayers and prizePool, version increment (a push is
\* not version-checked).  Then the route recomputes prizePool and sets
\* status 'registration' on the local document if it is full.
JoinAddPlayer(r) ==
  /\ req[r].kind = "join" /\ req[r].pc = "addPlayer"
  /\ LET u == req[r].in.user
         tid == req[r].in.tid
         loc == req[r].loc
         t == preSave(loc.tournament)
         full == isFull(t) /\ t.status # "registration"
     IN  /\ tournaments' = [tournaments EXCEPT ![tid] =
               [@ EXCEPT !.players = Append(@, u),
                         !.currentPlayers = t.currentPlayers,
                         !.prizePool = t.prizePool,
                         !.v = @ + 1]]
         /\ Goto(r, "saveTournament",
                 [loc EXCEPT !.tournament =
                    [t EXCEPT !.v = @ + 1,
                              !.status = IF full THEN "registration" ELSE @],
                             !.statusModified = full])
  /\ UNCHANGED <<nodeEnv, pushes, payments, transactions, wallets, started>>

\* await tournament.save(): writes the fields modified since addPlayer
\* (the status, if it was set), then the 200 response.
JoinSaveTournament(r) ==
  /\ req[r].kind = "join" /\ req[r].pc = "saveTournament"
  /\ LET tid == req[r].in.tid
         loc == req[r].loc
     IN  tournaments' =
           IF loc.statusModified
           THEN [tournaments EXCEPT ![tid].status = loc.tournament.status]
           ELSE tournaments
  /\ Finish(r, Status(200), "joined")
  /\ UNCHANGED <<nodeEnv, pushes, payments, transactions, wallets, started>>

LeaveReceive(r, in) ==
  /\ CanStart(r)
  /\ started' = started + 1
  /\ req' = [req EXCEPT ![r] = Fresh("leave", "findTournament", in)]
  /\ UNCHANGED <<nodeEnv, pushes, payments, transactions, wallets, tournaments>>

\* await Tournament.findById(tournamentId), the registration check and the
\* start check (a start date, once set, is never in the future).
LeaveFindTournament(r) ==
  /\ req[r].kind = "leave" /\ req[r].pc = "findTournament"
  /\ LET in == req[r].in
         t == tournaments[in.tid]
     IN  IF in.tid \notin DOMAIN tournaments
         THEN Finish(r, Status(404), "noTournament")
         ELSE IF ~isUserRegistered(t, in.user)
         THEN Finish(r, Status(400), "notRegistered")
         ELSE IF t.startDate # "unset" THEN Finish(r, Status(400), "started")
         ELSE Goto(r, "findWallet", [tournament |-> t])
  /\ UNCHANGED <<nodeEnv, pushes, payments, transactions, wallets, tournaments, started>>

\* The refund: await Wallet.findOne({ userId }); with a wallet,
\* wallet.balance += entryFee; without, removePlayer up to its save().
LeaveFindWallet(r) ==
  /\ req[r].kind = "leave" /\ req[r].pc = "findWallet"
  /\ LET u == req[r].in.user
         t == req[r].loc.tournament
         wid == FindWalletByUser(u)
     IN  IF wid = NoId
         THEN Goto(r, "removePlayer", [tournament |-> removePlayerLocal(t, u)])
         ELSE Goto(r, "saveWallet",
                   [tournament |-> t,
                    wallet |-> [wid |-> wid, userId |-> u,
                                balance |-> wallets[wid].balance + t.entryFee]])
  /\ UNCHANGED <<nodeEnv, pushes, payments, transactions, wallets, tournaments, started>>

\* await wallet.save() of the refund, then removePlayer up to its save().
LeaveSaveWallet(r) ==
  /\ req[r].kind = "leave" /\ req[r].pc = "saveWallet"
  /\ LET u == req[r].in.user
         loc == req[r].loc
     IN  IF ~WalletSaveOk(loc.wallet)
         THEN UNCHANGED wallets /\ Finish(r, Status(500), "catch")
         ELSE /\ wallets' = WalletSaved(loc.wallet)
              /\ Goto(r, "removePlayer",
                      [loc EXCEPT !.tournament = removePlayerLocal(@, u)])
  /\ UNCHANGED <<nodeEnv, pushes, payments, transactions, tournaments, started>>

\* A removePlayer whose save writes the counter and not the array.
LeaveRemovePlayerCountOnly(r) ==
  /\ req[r].kind = "leave" /\ req[r].pc = "removePlayer"
  /\ LET tid == req[r].in.tid
         t == preSave(req[r].loc.tournament)
     IN  IF tournaments[tid].v # t.v
         THEN UNCHANGED tournaments /\ Finish(r, Status(500), "catch")
         ELSE /\ tournaments' = [tournaments EXCEPT ![tid] =
                   [@ EXCEPT !.currentPlayers = t.currentPlayers,
                             !.prizePool = t.prizePool,
                             !.v = @ + 1]]
              /\ Finish(r, Status(200), "left")
  /\ UNCHANGED <<nodeEnv, pushes, payments, transactions, wallets, started>>

\* The save() of removePlayer: the spliced array is written whole ($set)
\* under the version the document was loaded with; a stored version that
\* has moved on makes the save throw (VersionError), answered 500.
LeaveRemovePlayer(r) ==
  /\ req[r].kind = "leave" /\ req[r].pc = "removePlayer"
  /\ LET tid == req[r].in.tid
         t == preSave(req[r].loc.tournament)
     IN  IF tournaments[tid].v # t.v
         THEN UNCHANGED tournaments /\ Finish(r, Status(500), "catch")
         ELSE /\ tournaments' = [tournaments EXCEPT ![tid] =
                   [@ EXCEPT !.players = t.players,
                             !.currentPlayers = t.currentPlayers,
                             !.prizePool = t.prizePool,
                             !.v = @ + 1]]
              /\ Finish(r, Status(200), "left")
  /\ UNCHANGED <<nodeEnv, pushes, payments, transactions, wallets, started>>

(* ------------------------- PATCH /:id/status ------------------------- *)

\* validStatuses
validStatuses ==
  {"upcoming", "registration", "ongoing", "completed", "cancelled"}

\* req.params.id and req.body.status of an administrator's request: the
\* statuses the claims are about, a missing one ("") and one outside the
\* list.
StatusInputs ==
  [tid : {2, 5}, status : {"ongoing", "completed", "upcoming", "", "started"}]

\* The handler up to its first await: the status check.
StatusReceive(r, in) ==
  /\ CanStart(r)
  /\ started' = started + 1
  /\ LET fresh == Fresh("status", "findTournament", in) IN
       IF in.status = "" \/ in.status \notin validStatuses
       THEN req' = [req EXCEPT ![r] =
                      Answered(fresh, Status(400), "invalidStatus")]
       ELSE req' = [req EXCEPT ![r] = fresh]
  /\ UNCHANGED <<nodeEnv, pushes, payments, transactions, wallets, tournaments>>

\* await Tournament.findById(req.params.id); tournament.status = status;
\* startDate = now on the first move to ongoing, endDate = now on the
\* first move to completed.
StatusFindTournament(r) ==
  /\ req[r].kind = "status" /\ req[r].pc = "findTournament"
  /\ LET in == req[r].in
         t == tournaments[in.tid]
     IN  IF in.tid \notin DOMAIN tournaments
         THEN Finish(r, Status(404), "noTournament")
         ELSE Goto(r, "saveTournament",
                   [tournament |->
                      [t EXCEPT !.status = in.status,
                                !.startDate =
                                  IF in.status = "ongoing" /\ @ = "unset"
                                  THEN "set" ELSE @,
                                !.endDate =
                                  IF in.status = "completed" /\ @ = "unset"
                                  THEN "set" ELSE @]])
  /\ UNCHANGED <<nodeEnv, pushes, payments, transactions, wallets, tournaments, started>>

\* await tournament.save(): the three fields are written ($set); the
\* version is neither checked nor incremented (no array was modified).
StatusSaveTournament(r) ==
  /\ req[r].kind = "status" /\ req[r].pc = "saveTournament"
  /\ LET tid == req[r].in.tid
         t == req[r].loc.tournament
     IN  tournaments' = [tournaments EXCEPT ![tid] =
           [@ EXCEPT !.status = t.status, !.startDate = t.startDate,
                     !.endDate = t.endDate]]
  /\ Finish(r, Status(200), "updated")
  /\ UNCHANGED <<nodeEnv, pushes, payments, transactions, wallets, started>>

\* An awaited store operation of a wallet or tournament route rejects
\* (connection lost, timeout): the catch block answers 500.
RouteAwaits ==
  {"findWallet", "saveWallet", "findTournament", "addPlayer",
   "saveTournament", "removePlayer"}

RouteStoreError(r) ==
  /\ req[r].kind \in {"add", "withdraw", "join", "leave", "status"}
  /\ req[r].pc \in RouteAwaits
  /\ Finish(r, Status(500), "catch")
  /\ UNCHANGED <<nodeEnv, pushes, payments, transactions, wallets, tournaments, started>>

(* ---------------------------- POST /pay ------------------------------ *)

\* requestId = uuidv4(): a value no other request has; n is the number of
\* the request.
uuidv4(n) == "uuid-" \o ToString(n)

\* Phone numbers are sequences of characters.
ValidPhone == <<"2", "5", "4", "7", "0", "8", "3", "7", "4", "1", "4", "9">>

PhoneNumbers ==
  { <<>>, ValidPhone, <<" ">> \o ValidPhone \o <<" ">>,
    <<"0", "7", "0", "8", "3", "7", "4", "1", "4", "9">>,
    <<"2", "5", "4", "1">> \o SubSeq(ValidPhone, 5, Len(ValidPhone)),
    SubSeq(ValidPhone, 1, Len(ValidPhone) - 1) \o <<"x">> }

\* String.prototype.trim()
RECURSIVE trim(_)
trim(s) ==
  IF s = <<>> THEN s
  ELSE IF Head(s) = " " THEN trim(Tail(s))
  ELSE IF s[Len(s)] = " " THEN trim(SubSeq(s, 1, Len(s) - 1))
  ELSE s

\* validatePhoneNumber(phone): /^2547\d{8}$/ on the trimmed string.
validatePhoneNumber(phone) ==
  IF phone = <<>> THEN FALSE
  ELSE LET cleaned == trim(phone) IN
         /\ Len(cleaned) = 12
         /\ SubSeq(cleaned, 1, 4) = <<"2", "5", "4", "7">>
         /\ \A i \in 5..12 :
              cleaned[i] \in {"0", "1", "2", "3", "4", "5", "6", "7", "8", "9"}

\* An amount check that accepts every number.
validateAmountAnyNumber(amount) == amount.t = "num"

\* validateAmount(amount): parseFloat gives NaN for the non-numeric
\* strings and for null.
validateAmount(amount) ==
  /\ amount.t = "num"
  /\ amount.v > 0 /\ amount.v <= MaxPushAmount

PayAmounts ==
  { Null, Str("abc"), Num(0 - RequestedAmount), Num(RequestedAmount),
    Num(MaxPushAmount), Num(MaxPushAmount + 1) }

\* Bodies of POST /pay: userId "" is a missing userId.
PayInputs == [phoneNumber : PhoneNumbers, amount : PayAmounts, userId : {"u1", ""}]

\* The CheckoutRequestIDs the provider answers a push with: one it has
\* used before (the stored payment carries it) and a new one.
ProviderIds == {"ws_1", "ws_2"}

\* POST /pay up to its first await: the three validations.
PayReceive(r, in) ==
  /\ CanStart(r)
  /\ started' = started + 1
  /\ LET fresh == [Fresh("pay", "getToken", in) EXCEPT
                     !.loc = [requestId |-> uuidv4(started + 1)]]
     IN  IF in.phoneNumber = <<>> \/ ~Truthy(in.amount) \/ in.userId = ""
         THEN req' = [req EXCEPT ![r] = Answered(fresh, Status(400), "missingFields")]
         ELSE IF ~validatePhoneNumber(in.phoneNumber)
         THEN req' = [req EXCEPT ![r] = Answered(fresh, Status(400), "invalidPhone")]
         ELSE IF ~validateAmount(in.amount)
         THEN req' = [req EXCEPT ![r] = Answered(fresh, Status(400), "invalidAmount")]
         ELSE req' = [req EXCEPT ![r] = fresh]
  /\ UNCHANGED <<nodeEnv, pushes, payments, transactions, wallets, tournaments>>

\* await getAccessToken()
PayGetToken(r) ==
  /\ req[r].kind = "pay" /\ req[r].pc = "getToken"
  /\ Goto(r, "stkPush", req[r].loc)
  /\ UNCHANGED <<nodeEnv, pushes, payments, transactions, wallets, tournaments, started>>

\* await axios.post(.. stkpush ..) resolves: the provider has taken the
\* push and answered with its CheckoutRequestID.
PayStkPush(r, id) ==
  /\ req[r].kind = "pay" /\ req[r].pc = "stkPush"
  /\ pushes' = Append(pushes, [requestId |-> req[r].loc.requestId,
                               checkoutRequestId |-> id, accepted |-> TRUE])
  /\ Goto(r, "createTransaction",
          [requestId |-> req[r].loc.requestId, CheckoutRequestID |-> id,
           transactionId |-> NoId, tries |-> 0])
  /\ UNCHANGED <<nodeEnv, payments, transactions, wallets, tournaments, started>>

\* The provider has taken the push but its answer does not arrive within
\* the 15 s timeout: axios rejects with ECONNABORTED, the catch answers 500.
PayStkPushTimeout(r, id) ==
  /\ req[r].kind = "pay" /\ req[r].pc = "stkPush"
  /\ pushes' = Append(pushes, [requestId |-> req[r].loc.requestId,
                               checkoutRequestId |-> id, accepted |-> TRUE])
  /\ Finish(r, Status(500), "timeout")
  /\ UNCHANGED <<nodeEnv, payments, transactions, wallets, tournaments, started>>

\* The provider refuses the push with a 400 or 401 response, which the
\* catch passes on.
PayStkPushRejected(r, code) ==
  /\ req[r].kind = "pay" /\ req[r].pc = "stkPush"
  /\ pushes' = Append(pushes, [requestId |-> req[r].loc.requestId,
                               checkoutRequestId |-> "-", accepted |-> FALSE])
  /\ Finish(r, Status(code), "rejected")
  /\ UNCHANGED <<nodeEnv, payments, transactions, wallets, tournaments, started>>

\* The token request or the push does not reach the provider (transport
\* error): the catch answers 500.
PayTransportError(r) ==
  /\ req[r].kind = "pay" /\ req[r].pc \in {"getToken", "stkPush"}
  /\ Finish(r, Status(500),
            IF req[r].pc = "getToken" THEN "tokenError" ELSE "transport")
  /\ UNCHANGED <<nodeEnv, pushes, payments, transactions, wallets, tournaments, started>>

\* createWithRetry(Transaction, { .. status: 'pending', referenceId:
\* requestId }): the create succeeds.
PayCreateTransaction(r) ==
  /\ req[r].kind = "pay" /\ req[r].pc = "createTransaction"
  /\ transactions' = Append(transactions,
       [userId |-> req[r].in.userId, type |-> "topup",
        amount |-> parseFloat(req[r].in.amount), status |-> "pending",
        referenceId |-> req[r].loc.requestId])
  /\ Goto(r, "createPayment",
          [req[r].loc EXCEPT !.transactionId = Len(transactions) + 1,
                             !.tries = 0])
  /\ UNCHANGED <<nodeEnv, pushes, payments, wallets, tournaments, started>>

\* createWithRetry(Payment, { checkoutRequestId, .. status: 'pending',
\* transactionId, metadata: { requestId } }): the create succeeds (no index
\* of the schema is unique), then the 200 response.
PayCreatePayment(r) ==
  /\ req[r].kind = "pay" /\ req[r].pc = "createPayment"
  /\ payments' = Append(payments,
       [checkoutRequestId |-> req[r].loc.CheckoutRequestID, orderId |-> "-",
        userId |-> req[r].in.userId, amount |-> parseFloat(req[r].in.amount),
        status |-> "pending", failureReason |-> "-",
        mpesaReceiptNumber |-> "-",
        transactionId |-> req[r].loc.transactionId,
        requestId |-> req[r].loc.requestId])
  /\ Finish(r, Status(200), "initiated")
  /\ UNCHANGED <<nodeEnv, pushes, transactions, wallets, tournaments, started>>

\* createWithRetry: model.create rejects; it is tried again until the
\* last of the tries throws into the catch, which answers 500.
PayCreateFails(r) ==
  /\ req[r].kind = "pay" /\ req[r].pc \in {"createTransaction", "createPayment"}
  /\ IF req[r].loc.tries + 1 < Retries
     THEN Goto(r, req[r].pc, [req[r].loc EXCEPT !.tries = @ + 1])
     ELSE Finish(r, Status(500), "catch")
  /\ UNCHANGED <<nodeEnv, pushes, payments, transactions, wallets, tournaments, started>>

\* createWithRetry(Transaction, ..): the store inserts the document and
\* its acknowledgment is lost (the socket times out), so model.create
\* rejects; createWithRetry calls it again, or throws after the last try.
PayCreateTransactionUnacknowledged(r) ==
  /\ req[r].kind = "pay" /\ req[r].pc = "createTransaction"
  /\ transactions' = Append(transactions,
       [userId |-> req[r].in.userId, type |-> "topup",
        amount |-> parseFloat(req[r].in.amount), status |-> "pending",
        referenceId |-> req[r].loc.requestId])
  /\ IF req[r].loc.tries + 1 < Retries
     THEN Goto(r, req[r].pc, [req[r].loc EXCEPT !.tries = @ + 1])
     ELSE Finish(r, Status(500), "catch")
  /\ UNCHANGED <<nodeEnv, pushes, payments, wallets, tournaments, started>>

\* The same for createWithRetry(Payment, ..).
PayCreatePaymentUnacknowledged(r) ==
  /\ req[r].kind = "pay" /\ req[r].pc = "createPayment"
  /\ payments' = Append(payments,
       [checkoutRequestId |-> req[r].loc.CheckoutRequestID, orderId |-> "-",
        userId |-> req[r].in.userId, amount |-> parseFloat(req[r].in.amount),
        status |-> "pending", failureReason |-> "-",
        mpesaReceiptNumber |-> "-",
        transactionId |-> req[r].loc.transactionId,
        requestId |-> req[r].loc.requestId])
  /\ IF req[r].loc.tries + 1 < Retries
     THEN Goto(r, req[r].pc, [req[r].loc EXCEPT !.tries = @ + 1])
     ELSE Finish(r, Status(500), "catch")
  /\ UNCHANGED <<nodeEnv, pushes, transactions, wallets, tournaments, started>>

(* ----------------------- POST /capture/:orderID ---------------------- *)

\* The order ids captures name: the one of the stored PayPal payment and
\* one no Payment carries.
OrderIds == {"ord_1", "ord_9"}

\* req.params.orderID and req.body.userId ("" when the body has none).
CaptureInputs == [orderID : OrderIds, userId : {"u1", ""}]

\* The statuses paypalClient.captureOrder answers with.
CaptureStatuses == {"COMPLETED", "PENDING"}

\* Payment.findOne({ orderId })
FindPaymentByOrder(id) ==
  findOne({i \in DOMAIN payments : payments[i].orderId = id})

CaptureReceive(r, in) ==
  /\ CanStart(r)
  /\ started' = started + 1
  /\ req' = [req EXCEPT ![r] = Fresh("capture", "captureOrder", in)]
  /\ UNCHANGED <<nodeEnv, pushes, payments, transactions, wallets, tournaments>>

\* await paypalClient.captureOrder(orderID): anything but COMPLETED is
\* answered 400; otherwise the amount and the id of the capture are read.
CaptureOrder(r, status) ==
  /\ req[r].kind = "capture" /\ req[r].pc = "captureOrder"
  /\ IF status # "COMPLETED" THEN Finish(r, Status(400), "notCompleted")
     ELSE Goto(r, "findPayment",
               [userId |-> IF req[r].in.userId = "" THEN "test-user"
                           ELSE req[r].in.userId,
                amount |-> SettledAmount, paypalTransactionId |-> "CAP1"])
  /\ UNCHANGED <<nodeEnv, pushes, payments, transactions, wallets, tournaments, started>>

\* let payment = await Payment.findOne({ orderId: orderID })
CaptureFindPayment(r) ==
  /\ req[r].kind = "capture" /\ req[r].pc = "findPayment"
  /\ LET loc == req[r].loc
         pid == FindPaymentByOrder(req[r].in.orderID)
         found == [id |-> pid, userId |-> payments[pid].userId,
                   status |-> payments[pid].status,
                   transactionId |-> payments[pid].transactionId]
     IN  IF pid = NoId
         THEN Goto(r, "createPayment",
                   [userId |-> loc.userId, amount |-> loc.amount,
                    paypalTransactionId |-> loc.paypalTransactionId,
                    payment |-> [id |-> NoId, userId |-> loc.userId,
                                 status |-> "none", transactionId |-> NoId],
                    transaction |-> NoId])
         ELSE Goto(r, "savePayment",
                   [userId |-> loc.userId, amount |-> loc.amount,
                    paypalTransactionId |-> loc.paypalTransactionId,
                    payment |-> found, transaction |-> NoId])
  /\ UNCHANGED <<nodeEnv, pushes, payments, transactions, wallets, tournaments, started>>

\* No Payment of the order: await Payment.create({ .. status: 'completed' }).
CaptureCreatePayment(r) ==
  /\ req[r].kind = "capture" /\ req[r].pc = "createPayment"
  /\ LET loc == req[r].loc IN
       /\ payments' = Append(payments,
            [checkoutRequestId |-> "-", orderId |-> req[r].in.orderID,
             userId |-> loc.userId, amount |-> loc.amount,
             status |-> "completed", failureReason |-> "-",
             mpesaReceiptNumber |-> "-", transactionId |-> NoId,
             requestId |-> "-"])
       /\ Goto(r, "createTransaction",
               [loc EXCEPT !.payment.id = Len(payments) + 1])
  /\ UNCHANGED <<nodeEnv, pushes, transactions, wallets, tournaments, started>>

\* A Payment of the order: payment.status = 'completed'; await
\* payment.save().
CaptureSavePayment(r) ==
  /\ req[r].kind = "capture" /\ req[r].pc = "savePayment"
  /\ LET payment == req[r].loc.payment IN
       /\ payments' = [payments EXCEPT ![payment.id].status = "completed"]
       /\ Goto(r, IF payment.transactionId # NoId THEN "updateTransaction"
                  ELSE "createTransaction", req[r].loc)
  /\ UNCHANGED <<nodeEnv, pushes, transactions, wallets, tournaments, started>>

\* await Transaction.findByIdAndUpdate(payment.transactionId, { status:
\* 'completed', referenceId: paypalTransactionId }, { new: true })
CaptureUpdateTransaction(r) ==
  /\ req[r].kind = "capture" /\ req[r].pc = "updateTransaction"
  /\ LET loc == req[r].loc
         tid == loc.payment.transactionId
     IN  IF tid \in DOMAIN transactions
         THEN /\ transactions' = [transactions EXCEPT ![tid] =
                   [@ EXCEPT !.status = "completed",
                             !.referenceId = loc.paypalTransactionId]]
              /\ Goto(r, "findWallet", [loc EXCEPT !.transaction = tid])
         ELSE /\ UNCHANGED transactions
              /\ Goto(r, "findWallet", loc)
  /\ UNCHANGED <<nodeEnv, pushes, payments, wallets, tournaments, started>>

\* The Payment has no transactionId: await Transaction.create({ .. status:
\* 'completed' }); payment.transactionId = transaction._id.
CaptureCreateTransaction(r) ==
  /\ req[r].kind = "capture" /\ req[r].pc = "createTransaction"
  /\ LET loc == req[r].loc IN
       /\ transactions' = Append(transactions,
            [userId |-> loc.userId, type |-> "topup", amount |-> loc.amount,
             status |-> "completed", referenceId |-> loc.paypalTransactionId])
       /\ Goto(r, "linkPayment",
               [loc EXCEPT !.transaction = Len(transactions) + 1,
                           !.payment.transactionId = Len(transactions) + 1])
  /\ UNCHANGED <<nodeEnv, pushes, payments, wallets, tournaments, started>>

\* await payment.save() of the new transactionId.
CaptureLinkPayment(r) ==
  /\ req[r].kind = "capture" /\ req[r].pc = "linkPayment"
  /\ LET payment == req[r].loc.payment IN
       payments' = [payments EXCEPT ![payment.id].transactionId =
                                       payment.transactionId]
  /\ Goto(r, "findWallet", req[r].loc)
  /\ UNCHANGED <<nodeEnv, pushes, transactions, wallets, tournaments, started>>

\* let wallet = await Wallet.findOne({ userId: payment.userId }); a new
\* Wallet holding the amount, or the found one with the amount added.
CaptureFindWallet(r) ==
  /\ req[r].kind = "capture" /\ req[r].pc = "findWallet"
  /\ LET loc == req[r].loc
         u == loc.payment.userId
         wid == FindWalletByUser(u)
         wallet == IF wid = NoId
                   THEN [wid |-> NoId, userId |-> u, balance |-> loc.amount]
                   ELSE [wid |-> wid, userId |-> u,
                         balance |-> wallets[wid].balance + loc.amount]
     IN  Goto(r, "saveWallet",
              [userId |-> loc.userId, amount |-> loc.amount,
               paypalTransactionId |-> loc.paypalTransactionId,
               payment |-> loc.payment, transaction |-> loc.transaction,
               wallet |-> wallet])
  /\ UNCHANGED <<nodeEnv, pushes, payments, transactions, wallets, tournaments, started>>

\* await wallet.save(), then the response, which reads transaction._id: a
\* Transaction the update did not find throws into the catch.
CaptureSaveWallet(r) ==
  /\ req[r].kind = "capture" /\ req[r].pc = "saveWallet"
  /\ LET loc == req[r].loc IN
       IF ~WalletSaveOk(loc.wallet)
       THEN UNCHANGED wallets /\ Finish(r, Status(500), "catch")
       ELSE /\ wallets' = WalletSaved(loc.wallet)
            /\ IF loc.transaction = NoId THEN Finish(r, Status(500), "catch")
               ELSE Finish(r, Status(200), "captured")
  /\ UNCHANGED <<nodeEnv, pushes, payments, transactions, tournaments, started>>

\* captureOrder or an awaited store operation rejects: the catch answers
\* 500.
CaptureAwaits ==
  {"captureOrder", "findPayment", "createPayment", "savePayment",
   "updateTransaction", "createTransaction", "linkPayment", "findWallet",
   "saveWallet"}

CaptureError(r) ==
  /\ req[r].kind = "capture" /\ req[r].pc \in CaptureAwaits
  /\ Finish(r, Status(500), "catch")
  /\ UNCHANGED <<nodeEnv, pushes, payments, transactions, wallets, tournaments, started>>

\* The response has been sent and the connection closed: the slot is free.
Release(r) ==
  /\ req[r].pc = "done"
  /\ req' = [req EXCEPT ![r] = Idle]
  /\ UNCHANGED <<nodeEnv, pushes, payments, transactions, wallets, tournaments, started>>

(* ------------------------------ initial state ------------------------ *)

\* The stores after two POST /pay of user u1 were accepted by the provider:
\* "ws_0" has been settled by its callback (completed Payment and
\* Transaction, the wallet of u1 created with the settled amount), "ws_1"
\* is waiting for its callback (pending Payment and Transaction).  The
\* PayPal order "ord_1" of u1 has been created and not captured (pending
\* Payment and Transaction).  u2 has no wallet.
InitPayments ==
  << [checkoutRequestId |-> "ws_1", orderId |-> "-", userId |-> "u1",
      amount |-> RequestedAmount, status |-> "pending", failureReason |-> "-",
      mpesaReceiptNumber |-> "-", transactionId |-> 1, requestId |-> "req-1"],
     [checkoutRequestId |-> "ws_0", orderId |-> "-", userId |-> "u1",
      amount |-> InitBalance, status |-> "completed", failureReason |-> "-",
      mpesaReceiptNumber |-> "RCPT0", transactionId |-> 2,
      requestId |-> "req-0"],
     [checkoutRequestId |-> "-", orderId |-> "ord_1", userId |-> "u1",
      amount |-> RequestedAmount, status |-> "pending", failureReason |-> "-",
      mpesaReceiptNumber |-> "-", transactionId |-> 3, requestId |-> "-"] >>

InitTransactions ==
  << [userId |-> "u1", type |-> "topup", amount |-> RequestedAmount,
      status |-> "pending", referenceId |-> "req-1"],
     [userId |-> "u1", type |-> "topup", amount |-> InitBalance,
      status |-> "completed", referenceId |-> "RCPT0"],
     [userId |-> "u1", type |-> "topup", amount |-> RequestedAmount,
      status |-> "pending", referenceId |-> "ord_1"] >>

InitWallets == << [userId |-> "u1", balance |-> InitBalance] >>

\* One tournament open for registration, nobody registered, not started.
InitTournaments ==
  << [status |-> "upcoming", players |-> <<>>, currentPlayers |-> 0,
      maxPlayers |-> MaxPlayers, entryFee |-> EntryFee, prizePool |-> 0,
      startDate |-> "unset", endDate |-> "unset",
      v |-> 0] >>

Init ==
  /\ nodeEnv \in {"production", "development"}
  /\ payments = InitPayments
  /\ transactions = InitTransactions
  /\ wallets = InitWallets
  /\ tournaments = InitTournaments
  /\ pushes = <<>>
  /\ req = [r \in Reqs |-> Idle]
  /\ started = 0

CallbackStep(r) ==
  \/ \E in \in CallbackInputs : CallbackReceive(r, in)
  \/ CallbackFindPayment(r)
  \/ CallbackFailPayment(r)
  \/ CallbackFailTransaction(r)
  \/ CallbackUpdatePayment(r)
  \/ CallbackUpdateTransaction(r)
  \/ CallbackFindWallet(r)
  \/ CallbackSaveWallet(r)
  \/ CallbackStoreError(r)

\* The callback reconciler alone, deliveries interleaving at their awaits.
CallbackNext ==
  \E r \in Reqs :
    \/ CallbackStep(r)
    \/ Release(r)

SpecCallback == Init /\ [][CallbackNext]_vars

\* The continuation of a handler suspended at an await: the awaited store
\* promise resolves or rejects and the handler runs on to its next await
\* or to its response.
CallbackResume(r) ==
  \/ CallbackFindPayment(r)
  \/ CallbackFailPayment(r)
  \/ CallbackFailTransaction(r)
  \/ CallbackUpdatePayment(r)
  \/ CallbackUpdateTransaction(r)
  \/ CallbackFindWallet(r)
  \/ CallbackSaveWallet(r)
  \/ CallbackStoreError(r)

\* The callback reconciler where every awaited store promise settles (the
\* driver resolves it or rejects it on its timeouts) and the event loop
\* runs the continuation.
SpecCallbackFair ==
  /\ Init
  /\ [][CallbackNext]_vars
  /\ \A r \in Reqs : WF_vars(CallbackResume(r))

\* The callback reconciler with a store that never fails, deliveries
\* interleaving at their awaits.
CallbackReliableNext ==
  \E r \in Reqs :
    \/ \E in \in CallbackInputs : CallbackReceive(r, in)
    \/ CallbackFindPayment(r)
    \/ CallbackFailPayment(r)
    \/ CallbackFailTransaction(r)
    \/ CallbackUpdatePayment(r)
    \/ CallbackUpdateTransaction(r)
    \/ CallbackFindWallet(r)
    \/ CallbackSaveWallet(r)
    \/ Release(r)

SpecCallbackReliable == Init /\ [][CallbackReliableNext]_vars

\* Sequential replay: a delivery is accepted only when no handler is
\* between its first await and its response.
NoneInFlight == \A q \in Reqs : req[q].pc \in {"idle", "done"}

CallbackReceiveSeq(r, in) == NoneInFlight /\ CallbackReceive(r, in)

CallbackSeqNext ==
  \E r \in Reqs :
    \/ \E in \in CallbackInputs : CallbackReceiveSeq(r, in)
    \/ CallbackFindPayment(r)
    \/ CallbackFailPayment(r)
    \/ CallbackFailTransaction(r)
    \/ CallbackUpdatePayment(r)
    \/ CallbackUpdateTransaction(r)
    \/ CallbackFindWallet(r)
    \/ CallbackSaveWallet(r)
    \/ CallbackStoreError(r)
    \/ Release(r)

SpecCallbackSeq == Init /\ [][CallbackSeqNext]_vars

\* The stores at the first top-up of u1: the pending Payment "ws_1" and its
\* Transaction, and no wallet yet.
InitFirstTopup ==
  /\ nodeEnv \in {"production", "development"}
  /\ payments = <<InitPayments[1]>>
  /\ transactions = <<InitTransactions[1]>>
  /\ wallets = <<>>
  /\ tournaments = InitTournaments
  /\ pushes = <<>>
  /\ req = [r \in Reqs |-> Idle]
  /\ started = 0

\* Sequential deliveries to a store in which the owner of the pending
\* payment has a wallet, or has none yet.
InitTopup == Init \/ InitFirstTopup

SpecTopup == InitTopup /\ [][CallbackSeqNext]_vars

WalletQueryStep(r) ==
  \/ \E in \in WalletQueryInputs : WalletQueryReceive(r, in)
  \/ WalletQueryFindWallet(r)
  \/ WalletQuerySaveWallet(r)
  \/ WalletQueryFindTransactions(r)

AddStep(r) ==
  \/ \E in \in WalletInputs : AddReceive(r, in)
  \/ AddFindWallet(r)
  \/ AddSaveWallet(r)

WithdrawStep(r) ==
  \/ \E in \in WalletInputs : WithdrawReceive(r, in)
  \/ WithdrawFindWallet(r)
  \/ WithdrawSaveWallet(r)

JoinStep(r) ==
  \/ \E in \in TournamentInputs : JoinReceive(r, in)
  \/ JoinFindTournament(r)
  \/ JoinFindWallet(r)
  \/ JoinSaveWallet(r)
  \/ JoinAddPlayer(r)
  \/ JoinSaveTournament(r)

LeaveStep(r) ==
  \/ \E in \in TournamentInputs : LeaveReceive(r, in)
  \/ LeaveFindTournament(r)
  \/ LeaveFindWallet(r)
  \/ LeaveSaveWallet(r)
  \/ LeaveRemovePlayer(r)

PayStep(r) ==
  \/ \E in \in PayInputs : PayReceive(r, in)
  \/ PayGetToken(r)
  \/ \E id \in ProviderIds : PayStkPush(r, id)
  \/ \E id \in ProviderIds : PayStkPushTimeout(r, id)
  \/ \E code \in {400, 401} : PayStkPushRejected(r, code)
  \/ PayTransportError(r)
  \/ PayCreateTransaction(r)
  \/ PayCreatePayment(r)
  \/ PayCreateFails(r)

\* POST /pay alone, requests interleaving at their awaits.
PayNext ==
  \E r \in Reqs :
    \/ PayStep(r)
    \/ Release(r)

SpecPay == Init /\ [][PayNext]_vars

\* Bodies of POST /pay that pass validation.
ValidPayInputs ==
  {in \in PayInputs :
     /\ in.userId # "" /\ in.phoneNumber = ValidPhone
     /\ in.amount = Num(RequestedAmount)}

\* POST /pay requests that pass validation, with a store whose
\* acknowledgments may be lost.
PayRetryNext ==
  \E r \in Reqs :
    \/ \E in \in ValidPayInputs : PayReceive(r, in)
    \/ PayGetToken(r)
    \/ \E id \in ProviderIds : PayStkPush(r, id)
    \/ \E id \in ProviderIds : PayStkPushTimeout(r, id)
    \/ \E code \in {400, 401} : PayStkPushRejected(r, code)
    \/ PayTransportError(r)
    \/ PayCreateTransaction(r)
    \/ PayCreatePayment(r)
    \/ PayCreateFails(r)
    \/ PayCreateTransactionUnacknowledged(r)
    \/ PayCreatePaymentUnacknowledged(r)
    \/ Release(r)

SpecPayRetry == Init /\ [][PayRetryNext]_vars

CaptureStep(r) ==
  \/ \E in \in CaptureInputs : CaptureReceive(r, in)
  \/ \E status \in CaptureStatuses : CaptureOrder(r, status)
  \/ CaptureFindPayment(r)
  \/ CaptureCreatePayment(r)
  \/ CaptureSavePayment(r)
  \/ CaptureUpdateTransaction(r)
  \/ CaptureCreateTransaction(r)
  \/ CaptureLinkPayment(r)
  \/ CaptureFindWallet(r)
  \/ CaptureSaveWallet(r)
  \/ CaptureError(r)

\* POST /capture/:orderID alone, requests interleaving at their awaits.
CaptureNext ==
  \E r \in Reqs :
    \/ CaptureStep(r)
    \/ Release(r)

SpecCapture == Init /\ [][CaptureNext]_vars

\* A store of four tournaments of entry fee EntryFee: one open with nobody
\* registered, one open with u2 registered, one full and closed for
\* registration by the last join, one that the status route has started
\* with u2 registered.
FullPlayers == [i \in 1..MaxPlayers |-> "p" \o ToString(i)]

RegistrationTournaments ==
  << InitTournaments[1],
     [status |-> "upcoming", players |-> <<"u2">>, currentPlayers |-> 1,
      maxPlayers |-> MaxPlayers, entryFee |-> EntryFee,
      prizePool |-> EntryFee, startDate |-> "unset", endDate |-> "unset",
      v |-> 1],
     [status |-> "registration", players |-> FullPlayers,
      currentPlayers |-> MaxPlayers, maxPlayers |-> MaxPlayers,
      entryFee |-> EntryFee, prizePool |-> MaxPlayers * EntryFee,
      startDate |-> "unset", endDate |-> "unset",
      v |-> MaxPlayers],
     [status |-> "ongoing", players |-> <<"u2">>, currentPlayers |-> 1,
      maxPlayers |-> MaxPlayers, entryFee |-> EntryFee,
      prizePool |-> EntryFee, startDate |-> "set", endDate |-> "unset",
      v |-> 1] >>

\* u2 has spent its balance on entry fees.
RegistrationWallets == Append(InitWallets, [userId |-> "u2", balance |-> 0])

\* req.user._id and req.params.id over that store (5 is no tournament).
RegistrationInputs == [user : Users, tid : 1..5]

InitRegistration ==
  /\ nodeEnv \in {"production", "development"}
  /\ payments = InitPayments
  /\ transactions = InitTransactions
  /\ wallets = RegistrationWallets
  /\ tournaments = RegistrationTournaments
  /\ pushes = <<>>
  /\ req = [r \in Reqs |-> Idle]
  /\ started = 0

RegistrationStep(r) ==
  \/ JoinFindTournament(r)
  \/ JoinFindWallet(r)
  \/ JoinSaveWallet(r)
  \/ JoinAddPlayer(r)
  \/ JoinSaveTournament(r)
  \/ LeaveFindTournament(r)
  \/ LeaveFindWallet(r)
  \/ LeaveSaveWallet(r)
  \/ LeaveRemovePlayer(r)
  \/ RouteStoreError(r)

\* POST /:id/join and POST /:id/leave, requests interleaving at their
\* awaits.  Answered requests stay in their slots, so the slots are in
\* order of arrival.
RegistrationNext ==
  \E r \in Reqs :
    \/ \E in \in RegistrationInputs : JoinReceive(r, in)
    \/ \E in \in RegistrationInputs : LeaveReceive(r, in)
    \/ RegistrationStep(r)

SpecRegistration == InitRegistration /\ [][RegistrationNext]_vars

JoinReceiveSeq(r, in) == NoneInFlight /\ JoinReceive(r, in)

LeaveReceiveSeq(r, in) == NoneInFlight /\ LeaveReceive(r, in)

\* The same two routes, each request arriving after the one before it was
\* answered.
JoinLeaveNext ==
  \E r \in Reqs :
    \/ \E in \in RegistrationInputs : JoinReceiveSeq(r, in)
    \/ \E in \in RegistrationInputs : LeaveReceiveSeq(r, in)
    \/ RegistrationStep(r)

SpecJoinLeave == InitRegistration /\ [][JoinLeaveNext]_vars

StatusStep(r) ==
  \/ \E in \in StatusInputs : StatusReceive(r, in)
  \/ StatusFindTournament(r)
  \/ StatusSaveTournament(r)

\* Users leaving while an administrator changes the status, requests
\* interleaving at their awaits.
StartNext ==
  \E r \in Reqs :
    \/ \E in \in RegistrationInputs : LeaveReceive(r, in)
    \/ LeaveFindTournament(r)
    \/ LeaveFindWallet(r)
    \/ LeaveSaveWallet(r)
    \/ LeaveRemovePlayer(r)
    \/ StatusStep(r)
    \/ RouteStoreError(r)

SpecStart == InitRegistration /\ [][StartNext]_vars

\* A tournament with one free slot, and both users able to pay the fee.
LastSlotTournaments ==
  << [status |-> "upcoming", players |-> SubSeq(FullPlayers, 1, MaxPlayers - 1),
      currentPlayers |-> MaxPlayers - 1, maxPlayers |-> MaxPlayers,
      entryFee |-> EntryFee, prizePool |-> (MaxPlayers - 1) * EntryFee,
      startDate |-> "unset", endDate |-> "unset", v |-> MaxPlayers - 1] >>

LastSlotWallets ==
  << [userId |-> "u1", balance |-> InitBalance],
     [userId |-> "u2", balance |-> InitBalance] >>

InitLastSlot ==
  /\ nodeEnv \in {"production", "development"}
  /\ payments = InitPayments
  /\ transactions = InitTransactions
  /\ wallets = LastSlotWallets
  /\ tournaments = LastSlotTournaments
  /\ pushes = <<>>
  /\ req = [r \in Reqs |-> Idle]
  /\ started = 0

\* Joins for the last slot, interleaving at their awaits, with a store
\* that never fails.
LastSlotNext ==
  \E r \in Reqs :
    \/ \E u \in Users : JoinReceive(r, [user |-> u, tid |-> 1])
    \/ JoinFindTournament(r)
    \/ JoinFindWallet(r)
    \/ JoinSaveWallet(r)
    \/ JoinAddPlayer(r)
    \/ JoinSaveTournament(r)

SpecLastSlot == InitLastSlot /\ [][LastSlotNext]_vars

\* The success callback the provider delivers for a push it accepted.
PushCallback(id) ==
  [headers |-> TRUE, body |-> "stk", ResultCode |-> 0, ResultDesc |-> "ok",
   CheckoutRequestID |-> id, hasMetadata |-> TRUE,
   Item |-> <<ItemAmount, ItemReceipt>>]

\* The provider calls back for one of the pushes it has accepted, at any
\* time after it took the push.
ProviderCallbackReceive(r) ==
  \E i \in DOMAIN pushes :
    /\ pushes[i].accepted
    /\ CallbackReceive(r, PushCallback(pushes[i].checkoutRequestId))

\* POST /pay requests that pass validation and the provider's callbacks for
\* the pushes it accepted, interleaving at the awaits.
PayCallbackNext ==
  \E r \in Reqs :
    \/ \E in \in ValidPayInputs : PayReceive(r, in)
    \/ PayGetToken(r)
    \/ \E id \in ProviderIds : PayStkPush(r, id)
    \/ \E id \in ProviderIds : PayStkPushTimeout(r, id)
    \/ \E code \in {400, 401} : PayStkPushRejected(r, code)
    \/ PayTransportError(r)
    \/ PayCreateTransaction(r)
    \/ PayCreatePayment(r)
    \/ PayCreateFails(r)
    \/ ProviderCallbackReceive(r)
    \/ CallbackFindPayment(r)
    \/ CallbackUpdatePayment(r)
    \/ CallbackUpdateTransaction(r)
    \/ CallbackFindWallet(r)
    \/ CallbackSaveWallet(r)
    \/ Release(r)

SpecPayCallback == Init /\ [][PayCallbackNext]_vars

\* The two debiting routes alone, interleaving at their awaits.
DebitsNext ==
  \E r \in Reqs :
    \/ WithdrawStep(r)
    \/ JoinStep(r)
    \/ Release(r)

SpecDebits == Init /\ [][DebitsNext]_vars

\* The success callback of the pending payment: the one credit the provider
\* delivers in the ledger specification.
LedgerCallbacks ==
  {in \in SuccessCallbacks :
     /\ in.headers /\ in.CheckoutRequestID = "ws_1"
     /\ in.Item = <<ItemAmount, ItemReceipt>>}

LedgerCallbackStep(r) ==
  \/ \E in \in LedgerCallbacks : CallbackReceive(r, in)
  \/ CallbackFindPayment(r)
  \/ CallbackUpdatePayment(r)
  \/ CallbackUpdateTransaction(r)
  \/ CallbackFindWallet(r)
  \/ CallbackSaveWallet(r)

\* The success callback of the first top-up of u1 and wallet queries,
\* interleaving at their awaits, with a store that fails only where the
\* unique index on userId rejects an insert.
LazyWalletNext ==
  \E r \in Reqs :
    \/ LedgerCallbackStep(r)
    \/ WalletQueryStep(r)
    \/ Release(r)

SpecLazyWallet == InitFirstTopup /\ [][LazyWalletNext]_vars

\* Every route that writes a wallet, interleaving at the awaits, with a
\* store that never fails.
LedgerNext ==
  \E r \in Reqs :
    \/ LedgerCallbackStep(r)
    \/ AddStep(r)
    \/ WithdrawStep(r)
    \/ JoinStep(r)
    \/ LeaveStep(r)
    \/ Release(r)

SpecLedger == Init /\ [][LedgerNext]_vars

\* All routes, and store operations that may fail.
Next ==
  \E r \in Reqs :
    \/ CallbackStep(r)
    \/ PayStep(r)
    \/ CaptureStep(r)
    \/ AddStep(r)
    \/ WithdrawStep(r)
    \/ JoinStep(r)
    \/ LeaveStep(r)
    \/ RouteStoreError(r)
    \/ Release(r)

Spec == Init /\ [][Next]_vars

(* ------------------------------- claims ------------------------------ *)

\* A full success callback for the stored payment of u1.
IsSuccessFor(q, id) ==
  /\ q.kind = "callback"
  /\ q.in.body = "stk" /\ q.in.ResultCode = 0
  /\ q.in.CheckoutRequestID = id
  /\ q.in.hasMetadata
  /\ Truthy(extractMetadata(q.in.Item, "Amount"))
  /\ Truthy(extractMetadata(q.in.Item, "MpesaReceiptNumber"))

\* Slot r takes a step of its handler (not the release of the slot).
Steps(r) == req'[r] # req[r] /\ req[r].kind # "idle" /\ req[r].pc # "done"

\* C1 (as claimed): under sequential replay of callbacks for the payment
\* ws_1 of u1 (opening balance InitBalance), the wallet is credited with
\* the settled amount at most once, however many success callbacks are
\* delivered: the balance is the opening one or the opening one plus the
\* settled amount.
C1_SequentialReplayCreditsOnce ==
  BalanceOf("u1") \in {InitBalance, InitBalance + SettledAmount}

\* C2 (as claimed): two deliveries of the success callback of ws_1 that
\* overlap (both looked the payment up while it was still pending) and
\* have both been processed to the end credit the wallet exactly once.
C2_ConcurrentDeliveriesCreditOnce ==
  \A r1, r2 \in Reqs :
    ( /\ r1 # r2
      /\ IsSuccessFor(req[r1], "ws_1") /\ IsSuccessFor(req[r2], "ws_1")
      /\ req[r1].exit = "processed" /\ req[r2].exit = "processed"
      /\ req[r1].loc.payment.status = "pending"
      /\ req[r2].loc.payment.status = "pending" )
    => BalanceOf("u1") <= InitBalance + SettledAmount

DebitAmount(q) ==
  IF q.kind = "withdraw" THEN q.in.amount.v ELSE q.loc.tournament.entryFee

DebitRead(q) == q.loc.wallet.balance + DebitAmount(q)

DebitSucceeded(q) ==
  /\ q.kind \in {"withdraw", "join"}
  /\ q.pc = "done" /\ q.res = [status |-> 200]

\* C5 (as claimed): of two debits (POST /withdraw, join) against the same
\* wallet that overlap (the store offers debits only, so two debits that
\* read the same balance overlapped) and whose amounts sum to more than
\* that balance, at most one reports success.
C5_ConcurrentDebitsAtMostOneSucceeds ==
  \A r1, r2 \in Reqs :
    ( /\ r1 # r2
      /\ DebitSucceeded(req[r1]) /\ DebitSucceeded(req[r2])
      /\ req[r1].loc.wallet.wid = req[r2].loc.wallet.wid
      /\ DebitAmount(req[r1]) > 0 /\ DebitAmount(req[r2]) > 0
      /\ DebitRead(req[r1]) = DebitRead(req[r2]) )
    => DebitAmount(req[r1]) + DebitAmount(req[r2]) <= DebitRead(req[r1])

\* The signed amount by which a request that reported success says it
\* changed the wallet of user u (0 for every other request).
SignedEffect(q, u) ==
  IF q.kind = "add" /\ q.exit = "updated" /\ q.in.uid = u THEN q.in.amount.v
  ELSE IF q.kind = "withdraw" /\ q.exit = "withdrawn" /\ q.in.uid = u
  THEN 0 - q.in.amount.v
  ELSE IF q.kind = "callback" /\ q.exit = "processed" /\ q.loc.payment.userId = u
  THEN q.loc.details.amount.v
  ELSE IF q.kind = "join" /\ q.exit = "joined" /\ q.in.user = u
  THEN 0 - q.loc.tournament.entryFee
  ELSE IF q.kind = "leave" /\ q.exit = "left" /\ q.in.user = u
  THEN q.loc.tournament.entryFee
  ELSE 0

RECURSIVE SumEffects(_, _)
SumEffects(n, u) ==
  IF n = 0 THEN 0 ELSE SignedEffect(req[n], u) + SumEffects(n - 1, u)

\* Every request accepted so far has been answered and still occupies its
\* slot: the responses of the whole run can be read off the slots.
AllAnswered ==
  /\ \A r \in Reqs : req[r].pc \in {"idle", "done"}
  /\ Cardinality({r \in Reqs : req[r].kind # "idle"}) = started

\* C6 (as claimed): no stored balance is ever negative, and once every
\* request of an interleaving of POST /add, POST /withdraw, callback
\* credit, join and leave has been answered, the balance of u1 is the
\* opening balance plus the signed amounts of the requests that reported
\* success.
C6_BalanceIsSumOfSuccessfulOperations ==
  /\ \A i \in DOMAIN wallets : wallets[i].balance >= 0
  /\ AllAnswered => BalanceOf("u1") = InitBalance + SumEffects(MaxConc, "u1")

\* The signed amount of a Transaction: money leaving the wallet counts
\* negative.
SignedAmount(t) ==
  IF t.type \in {"withdrawal", "payment", "game_entry"}
  THEN 0 - t.amount ELSE t.amount

RECURSIVE CompletedSum(_, _)
CompletedSum(n, u) ==
  IF n = 0 THEN 0
  ELSE CompletedSum(n - 1, u) +
       ( IF transactions[n].userId = u /\ transactions[n].status = "completed"
         THEN SignedAmount(transactions[n]) ELSE 0 )

\* C7 (as claimed): whenever no handler is between two of its awaits, the
\* balance of every wallet is the sum of the signed amounts of its owner's
\* completed Transactions.
C7_BalanceIsSumOfCompletedTransactions ==
  NoneInFlight =>
    \A i \in DOMAIN wallets :
      wallets[i].balance = CompletedSum(Len(transactions), wallets[i].userId)

\* C8 (as claimed): a Payment or Transaction whose status is completed or
\* failed keeps that status in every later step.
Terminal == {"completed", "failed"}

C8_TerminalStatusImmutable ==
  [][ /\ \A i \in DOMAIN payments :
           payments[i].status \in Terminal =>
             payments'[i].status = payments[i].status
      /\ \A i \in DOMAIN transactions :
           transactions[i].status \in Terminal =>
             transactions'[i].status = transactions[i].status ]_vars

\* C9 (as claimed): the wallet save of a success callback that found its
\* intent already failed leaves every wallet as it was.
C9_NoCreditForFailedIntent ==
  [][\A r \in Reqs :
       ( /\ req[r].kind = "callback" /\ req[r].pc = "saveWallet"
         /\ req[r].loc.payment.status = "failed"
         /\ Steps(r) )
       => wallets' = wallets]_vars

\* C10: the steps of a failure callback (ResultCode # 0) that found its
\* intent pending: the lookup enters the failure branch without changing a
\* store; the Payment update sets status failed and stores ResultDesc as
\* failureReason; the Transaction update sets the linked Transaction to
\* failed and the callback is acknowledged; no step changes a wallet.
C10_FailureCallback ==
  [][\A r \in Reqs :
       ( /\ req[r].kind = "callback" /\ req[r].in.body = "stk"
         /\ req[r].in.ResultCode # 0
         /\ Steps(r) /\ req'[r].exit # "catch" )
       => LET pid == FindPaymentByCheckout(req[r].in.CheckoutRequestID) IN
          /\ wallets' = wallets
          /\ (req[r].pc = "findPayment" /\ pid # NoId
                /\ payments[pid].status = "pending")
             => /\ req'[r].pc = "failPayment"
                /\ payments' = payments /\ transactions' = transactions
          /\ (req[r].pc = "failPayment" /\ req[r].loc.payment.status = "pending")
             => /\ payments'[pid].status = "failed"
                /\ payments'[pid].failureReason = req[r].in.ResultDesc
                /\ req'[r].pc = "failTransaction"
          /\ (req[r].pc = "failTransaction" /\ req[r].loc.payment.status = "pending")
             => /\ transactions'[payments[pid].transactionId].status = "failed"
                /\ req'[r].res = [status |-> 200, ResultCode |-> 0]
    ]_vars

\* C10 witness: a failure callback for the pending intent has run to its
\* acknowledgment: Payment and Transaction failed, reason stored, wallets
\* as at the start.
C10_Witness ==
  \E r \in Reqs :
    /\ req[r].kind = "callback" /\ req[r].exit = "failed"
    /\ req[r].loc.payment.status = "pending"
    /\ payments[1].status = "failed"
    /\ payments[1].failureReason = req[r].in.ResultDesc
    /\ transactions[1].status = "failed"
    /\ wallets = InitWallets

\* The settlement fields of a success callback are incomplete: no
\* CallbackMetadata, or no Amount, or no MpesaReceiptNumber in it.
LacksSettlement(in) ==
  \/ ~in.hasMetadata
  \/ ~Truthy(extractMetadata(in.Item, "Amount"))
  \/ ~Truthy(extractMetadata(in.Item, "MpesaReceiptNumber"))

\* C11: every step of the handler of a success callback (ResultCode 0)
\* whose settlement metadata is absent or lacks the amount or the receipt
\* leaves Payment, Transaction and Wallet as they were, and ends the
\* handler with the acknowledgment.
C11_IncompleteSettlementNoMutation ==
  [][\A r \in Reqs :
       ( /\ req[r].kind = "callback" /\ req[r].in.body = "stk"
         /\ req[r].in.ResultCode = 0 /\ LacksSettlement(req[r].in)
         /\ Steps(r) )
       => /\ payments' = payments
          /\ transactions' = transactions
          /\ wallets' = wallets
          /\ req'[r].pc = "done"
          /\ req'[r].res = [status |-> 200, ResultCode |-> 0]]_vars

\* C11 witness: a success callback for the pending payment that carries
\* the amount but no receipt has been answered; the intent is pending and
\* the stores are as at the start.
C11_Witness ==
  \E r \in Reqs :
    /\ req[r].kind = "callback" /\ req[r].exit = "missingDetails"
    /\ req[r].in.CheckoutRequestID = "ws_1" /\ req[r].in.Item = <<ItemAmount>>
    /\ payments = InitPayments /\ payments[1].status = "pending"
    /\ transactions = InitTransactions /\ wallets = InitWallets

\* The balance of user u in a Wallet collection (0 without wallet), and the
\* number of wallets u has in it.
BalanceIn(ws, u) ==
  IF \E i \in DOMAIN ws : ws[i].userId = u
  THEN ws[CHOOSE i \in DOMAIN ws : ws[i].userId = u].balance
  ELSE 0

WalletsOf(ws, u) == Cardinality({i \in DOMAIN ws : ws[i].userId = u})

\* C12: the steps of a success callback carrying amount and receipt that
\* found its intent pending, deliveries being sequential: the Payment
\* update sets the Payment completed with the settled amount; the
\* Transaction update sets the Transaction completed with the settled
\* amount and the receipt as referenceId; the wallet save raises the
\* owner's balance by the settled amount, creating the one wallet of the
\* owner if there was none.
C12_FirstSuccessCallback ==
  [][\A r \in Reqs :
       ( /\ IsSuccessFor(req[r], "ws_1")
         /\ req[r].pc \in {"updatePayment", "updateTransaction", "saveWallet"}
         /\ req[r].loc.payment.status = "pending"
         /\ Steps(r) /\ req'[r].exit # "catch" )
       => LET settled == extractMetadata(req[r].in.Item, "Amount").v
              receipt == extractMetadata(req[r].in.Item, "MpesaReceiptNumber").v
              pid == req[r].loc.payment.id
              tid == req[r].loc.payment.transactionId
              u == req[r].loc.payment.userId
          IN  /\ req[r].pc = "updatePayment" =>
                   /\ payments'[pid].status = "completed"
                   /\ payments'[pid].amount = settled
              /\ req[r].pc = "updateTransaction" =>
                   /\ transactions'[tid].status = "completed"
                   /\ transactions'[tid].amount = settled
                   /\ transactions'[tid].referenceId = receipt
              /\ req[r].pc = "saveWallet" =>
                   /\ BalanceIn(wallets', u) = BalanceIn(wallets, u) + settled
                   /\ WalletsOf(wallets', u) = 1
                   /\ req'[r].res = [status |-> 200, ResultCode |-> 0]
    ]_vars

\* C12 witness: the first success callback of a user without wallet has
\* been processed: the wallet exists and holds the settled amount, which
\* is not the requested one; Payment and Transaction are completed.
C12_Witness ==
  \E r \in Reqs :
    /\ IsSuccessFor(req[r], "ws_1") /\ req[r].exit = "processed"
    /\ req[r].loc.payment.status = "pending"
    /\ wallets = <<[userId |-> "u1", balance |-> SettledAmount]>>
    /\ SettledAmount # RequestedAmount
    /\ payments[1].status = "completed"
    /\ transactions[1].status = "completed"
    /\ transactions[1].amount = SettledAmount
    /\ transactions[1].referenceId = "RCPT1"

\* C13 (as claimed): for every push the provider has received, the pending
\* Transaction and the Payment of that POST /pay call are already stored.
C13_RecordsBeforeProviderCall ==
  \A i \in DOMAIN pushes :
    /\ \E j \in DOMAIN payments : payments[j].requestId = pushes[i].requestId
    /\ \E j \in DOMAIN transactions :
         transactions[j].referenceId = pushes[i].requestId

\* C14 (as claimed): a POST /pay call whose submission failed by transport
\* error or timeout has been answered with an error and has left its
\* Payment and its Transaction stored with status failed.
C14_FailedSubmissionMarksFailed ==
  \A r \in Reqs :
    (req[r].kind = "pay" /\ req[r].exit \in {"transport", "timeout"}) =>
      /\ req[r].res.status >= 400
      /\ \E j \in DOMAIN payments :
           /\ payments[j].requestId = req[r].loc.requestId
           /\ payments[j].status = "failed"
           /\ transactions[payments[j].transactionId].status = "failed"

\* C15 (as claimed): for every push the provider accepted whose POST /pay
\* call ended in the timeout, a Payment carrying the CheckoutRequestID of
\* that attempt is stored, so the callback of the attempt finds it.
C15_TimeoutKeepsPendingIntent ==
  \A r \in Reqs :
    (req[r].kind = "pay" /\ req[r].exit = "timeout") =>
      \A i \in DOMAIN pushes :
        (pushes[i].requestId = req[r].loc.requestId /\ pushes[i].accepted) =>
          \E j \in DOMAIN payments :
            /\ payments[j].checkoutRequestId = pushes[i].checkoutRequestId
            /\ payments[j].requestId = pushes[i].requestId

\* The phone number is 2547 followed by 8 digits, character for character.
MatchesPhonePattern(p) ==
  /\ Len(p) = 12
  /\ p[1] = "2" /\ p[2] = "5" /\ p[3] = "4" /\ p[4] = "7"
  /\ \A i \in 5..12 :
       p[i] \in {"0", "1", "2", "3", "4", "5", "6", "7", "8", "9"}

\* A phone number without the blanks before its first and after its last
\* character that is not a blank.
WithoutBlanks(p) ==
  LET inked == {i \in DOMAIN p : p[i] # " "} IN
    IF inked = {} THEN <<>>
    ELSE SubSeq(p, CHOOSE i \in inked : \A j \in inked : i <= j,
                   CHOOSE i \in inked : \A j \in inked : j <= i)

AmountInRange(a) == a.t = "num" /\ a.v > 0 /\ a.v <= MaxPushAmount

MissingField(in) == in.phoneNumber = <<>> \/ in.amount = Null \/ in.userId = ""

\* The step that accepts a POST /pay request rejects it: status 400, no
\* push sent, no record created or changed.
PayRejectedUntouched(r) ==
  /\ req'[r].pc = "done" /\ req'[r].res = [status |-> 400]
  /\ pushes' = pushes
  /\ payments' = payments /\ transactions' = transactions
  /\ wallets' = wallets

C17_CheckoutRequestIdUnique ==
  \A i, j \in DOMAIN payments :
    ( /\ payments[i].checkoutRequestId # "-"
      /\ payments[i].checkoutRequestId = payments[j].checkoutRequestId )
    => i = j

\* C18 (as claimed): a capture that found the Payment of its order already
\* completed does not credit the wallet: its wallet save leaves every
\* wallet as it was.
C18_CompletedOrderNotCreditedAgain ==
  [][\A r \in Reqs :
       ( /\ req[r].kind = "capture" /\ req[r].pc = "saveWallet"
         /\ req[r].loc.payment.status = "completed"
         /\ Steps(r) )
       => wallets' = wallets]_vars

\* The request in slot r joined and the next request to arrive was the
\* same user leaving the same tournament; both were answered 200 and
\* nothing arrived since.
JoinedThenLeft(r) ==
  /\ r + 1 \in Reqs
  /\ req[r].kind = "join" /\ req[r].exit = "joined"
  /\ req[r + 1].kind = "leave" /\ req[r + 1].exit = "left"
  /\ req[r + 1].in = req[r].in
  /\ \A q \in Reqs : q > r + 1 => req[q].kind = "idle"

\* What the join in slot r read before it changed anything: its local
\* wallet holds the balance read less the fee, its local tournament the
\* counter read plus one.
PreJoinBalance(r) ==
  req[r].loc.wallet.balance + req[r].loc.tournament.entryFee

PreJoinPlayers(r) == req[r].loc.tournament.currentPlayers - 1

\* C19: a join followed by a leave of the same user before the tournament
\* starts returns the wallet balance and currentPlayers to their values
\* before the join.
C19_JoinLeaveRoundTrip ==
  \A r \in Reqs :
    JoinedThenLeft(r) =>
      /\ BalanceOf(req[r].in.user) = PreJoinBalance(r)
      /\ tournaments[req[r].in.tid].currentPlayers = PreJoinPlayers(r)

\* u1 joined the tournament u2 is registered in and left it again.
C19_Witness ==
  /\ JoinedThenLeft(1)
  /\ req[1].in = [user |-> "u1", tid |-> 2]
  /\ BalanceOf("u1") = InitBalance
  /\ tournaments[2].currentPlayers = 1

\* The stored tournament a join names is one the route must refuse: its
\* status is neither upcoming nor registration, the user is among its
\* players, or it is full.
JoinMustBeRefused(in) ==
  /\ in.tid \in DOMAIN tournaments
  /\ LET t == tournaments[in.tid] IN
       \/ t.status \notin {"upcoming", "registration"}
       \/ isUserRegistered(t, in.user)
       \/ isFull(t)

\* C20: a join that reads a tournament which is full, has the user
\* registered, or whose status is neither upcoming nor registration is
\* answered 400 by that step, and no wallet and no tournament (players,
\* currentPlayers) changes.
C20_RefusedJoinChangesNothing ==
  [][\A r \in Reqs :
       ( /\ req[r].kind = "join" /\ req[r].pc = "findTournament"
         /\ Steps(r) /\ req'[r].exit # "catch"
         /\ JoinMustBeRefused(req[r].in) )
       => /\ req'[r].pc = "done"
          /\ req'[r].res = Status(400)
          /\ wallets' = wallets
          /\ tournaments' = tournaments]_vars

\* u2 asked to join the tournament it is registered in and u1 the full
\* one; both were refused and the stores are as they were.
C20_Witness ==
  /\ req[1].kind = "join" /\ req[1].in = [user |-> "u2", tid |-> 2]
  /\ req[1].exit = "alreadyJoined" /\ req[1].res = Status(400)
  /\ req[2].kind = "join" /\ req[2].in = [user |-> "u1", tid |-> 3]
  /\ req[2].exit = "full" /\ req[2].res = Status(400)
  /\ wallets = RegistrationWallets
  /\ tournaments = RegistrationTournaments

\* C21: a join that reads a wallet holding less than the entry fee is
\* answered 400 (insufficient balance) by that step; no wallet changes (no
\* partial debit) and no tournament changes (players, currentPlayers).
C21_InsufficientBalanceJoinRejected ==
  [][\A r \in Reqs :
       ( /\ req[r].kind = "join" /\ req[r].pc = "findWallet"
         /\ Steps(r) /\ req'[r].exit # "catch"
         /\ FindWalletByUser(req[r].in.user) # NoId
         /\ BalanceOf(req[r].in.user) < req[r].loc.tournament.entryFee )
       => /\ req'[r].pc = "done"
          /\ req'[r].exit = "insufficient"
          /\ req'[r].res = Status(400)
          /\ wallets' = wallets
          /\ tournaments' = tournaments]_vars

\* u2, whose wallet is empty, asked to join the open tournament and was
\* refused; its balance is still 0 and it is not among the players.
C21_Witness ==
  /\ \E r \in Reqs :
       /\ req[r].kind = "join" /\ req[r].in = [user |-> "u2", tid |-> 1]
       /\ req[r].exit = "insufficient" /\ req[r].res = Status(400)
  /\ BalanceOf("u2") = 0
  /\ ~isUserRegistered(tournaments[1], "u2")

\* C22 (as claimed): when the membership update of a join (the save of
\* addPlayer) fails after the entry fee was debited, the step that handles
\* the failure credits the fee back to the wallet of the user.
C22_FailedJoinRefundsDebit ==
  [][\A r \in Reqs :
       ( /\ req[r].kind = "join" /\ req[r].pc = "addPlayer"
         /\ Steps(r) /\ req'[r].exit = "catch" )
       => BalanceIn(wallets', req[r].in.user) =
            BalanceOf(req[r].in.user) + req[r].loc.tournament.entryFee]_vars

\* The request in slot r left a tournament with a refund and the next
\* request to arrive was the same user leaving the same tournament; its
\* lookup succeeded, it has been answered and nothing arrived since.
LeftThenLeaveAgain(r) ==
  /\ r + 1 \in Reqs
  /\ req[r].kind = "leave" /\ req[r].exit = "left"
  /\ req[r + 1].kind = "leave" /\ req[r + 1].in = req[r].in
  /\ req[r + 1].pc = "done" /\ req[r + 1].exit # "catch"
  /\ \A q \in Reqs : q > r + 1 => req[q].kind = "idle"

\* C23: after a successful leave, a second leave of the same user from the
\* same tournament is answered 400 (not registered); the wallet balance
\* and currentPlayers are what the first leave left (the values its
\* saves wrote).
C23_SecondLeaveNotRegistered ==
  \A r \in Reqs :
    LeftThenLeaveAgain(r) =>
      /\ req[r + 1].exit = "notRegistered"
      /\ req[r + 1].res = Status(400)
      /\ BalanceOf(req[r].in.user) = req[r].loc.wallet.balance
      /\ tournaments[req[r].in.tid].currentPlayers =
           req[r].loc.tournament.currentPlayers

\* u2 left tournament 2 (refund of the fee, no player left) and asked to
\* leave it again.
C23_Witness ==
  /\ LeftThenLeaveAgain(1)
  /\ req[1].in = [user |-> "u2", tid |-> 2]
  /\ req[2].exit = "notRegistered"
  /\ BalanceOf("u2") = EntryFee
  /\ tournaments[2].currentPlayers = 0

\* C24 (as claimed): once a tournament has been started (its start date
\* is set), no step of a leave changes a wallet or the players of that
\* tournament.
C24_NoLeaveEffectOnceStarted ==
  [][\A r \in Reqs :
       ( /\ req[r].kind = "leave" /\ Steps(r)
         /\ req[r].in.tid \in DOMAIN tournaments
         /\ tournaments[req[r].in.tid].startDate # "unset" )
       => /\ wallets' = wallets
          /\ tournaments'[req[r].in.tid].players =
               tournaments[req[r].in.tid].players
          /\ tournaments'[req[r].in.tid].currentPlayers =
               tournaments[req[r].in.tid].currentPlayers]_vars

\* At most one wallet per user.
OneWalletPerUser ==
  \A i, j \in DOMAIN wallets : wallets[i].userId = wallets[j].userId => i = j

\* C25 (as claimed): there is at most one wallet per user, and no credit
\* is lost when the wallet of a user is created lazily by two operations at
\* once: when every request has been answered and the top-up "ws_1" of u1
\* is completed, the wallet of u1 holds at least the settled amount.
C25_OneWalletNoLostCredit ==
  /\ OneWalletPerUser
  /\ ( /\ NoneInFlight
       /\ payments[1].status = "completed" )
     => BalanceOf("u1") >= SettledAmount

\* A callback that fails the authenticity check: delivered in production
\* without the provider's signature and timestamp headers.
FailsAuthenticityCheck(in) == nodeEnv = "production" /\ ~in.headers

\* C26: a callback that fails the authenticity check is answered
\* (401 / ResultCode 1) by the step that receives it, before any lookup,
\* and no Payment, Transaction or Wallet changes.
C26_UnauthenticCallbackRejectedFirst ==
  [][\A r \in Reqs :
       ( /\ req[r].kind = "idle" /\ req'[r].kind = "callback"
         /\ FailsAuthenticityCheck(req'[r].in) )
       => /\ req'[r].pc = "done"
          /\ req'[r].res = Unauthorized
          /\ payments' = payments
          /\ transactions' = transactions
          /\ wallets' = wallets]_vars

\* A valid success callback for the pending payment "ws_1", delivered in
\* production without the headers, has been answered 401; the payment is
\* still pending and the wallet not credited.
C26_Witness ==
  \E r \in Reqs :
    /\ req[r].kind = "callback" /\ req[r].exit = "unauthorized"
    /\ FailsAuthenticityCheck(req[r].in)
    /\ req[r].in.ResultCode = 0 /\ req[r].in.CheckoutRequestID = "ws_1"
    /\ req[r].in.Item = <<ItemAmount, ItemReceipt>>
    /\ payments[1].status = "pending" /\ transactions[1].status = "pending"
    /\ wallets = InitWallets

\* C27: a withdrawal that reads a wallet holding less than the amount is
\* answered 400 (insufficient balance) by that step and no wallet changes:
\* the balance is neither clamped to zero nor partially debited.
C27_OverdrawRejected ==
  [][\A r \in Reqs :
       ( /\ req[r].kind = "withdraw" /\ req[r].pc = "findWallet"
         /\ Steps(r) /\ req'[r].exit # "catch"
         /\ FindWalletByUser(req[r].in.uid) # NoId
         /\ BalanceOf(req[r].in.uid) < req[r].in.amount.v )
       => /\ req'[r].pc = "done"
          /\ req'[r].exit = "insufficient"
          /\ req'[r].res = Status(400)
          /\ wallets' = wallets]_vars

\* After a withdrawal of SettledAmount, u1 asked for SettledAmount again,
\* more than is left, and was refused; what was left is still there.
C27_Witness ==
  \E r \in Reqs :
    /\ req[r].kind = "withdraw" /\ req[r].exit = "insufficient"
    /\ req[r].in = [uid |-> "u1", amount |-> Num(SettledAmount)]
    /\ BalanceOf("u1") = InitBalance - SettledAmount
    /\ BalanceOf("u1") < SettledAmount /\ BalanceOf("u1") > 0

\* A Transaction of one of the given types for the user and the amount.
HasTransaction(u, types, amount) ==
  \E i \in DOMAIN transactions :
    /\ transactions[i].userId = u
    /\ transactions[i].type \in types
    /\ transactions[i].amount = amount

\* C28 (as claimed): every answered join has recorded an entry-fee
\* Transaction of the user ("entry_fee", or "game_entry" as the Transaction
\* schema names it) and every answered leave a refund Transaction.
C28_EscrowMovesRecorded ==
  \A r \in Reqs :
    /\ (req[r].kind = "join" /\ req[r].exit = "joined") =>
         HasTransaction(req[r].in.user, {"entry_fee", "game_entry"},
                        req[r].loc.tournament.entryFee)
    /\ (req[r].kind = "leave" /\ req[r].exit = "left") =>
         HasTransaction(req[r].in.user, {"refund"},
                        req[r].loc.tournament.entryFee)

\* C29 (as claimed): once the handler of a success callback has finished,
\* through its error path as well, the top-up "ws_1" of u1 is not left
\* with its Payment or its Transaction completed and the wallet not
\* credited with the settled amount.
C29_CompletedImpliesCredited ==
  ( /\ NoneInFlight
    /\ \/ payments[1].status = "completed"
       \/ transactions[1].status = "completed" )
  => BalanceOf("u1") >= InitBalance + SettledAmount

\* C30 (as claimed): in the success path of the callback the writes come
\* in the order Transaction, Payment, Wallet: the step that marks the
\* Payment completed finds its Transaction completed, and the step that
\* credits the wallet finds both completed.
C30_TransactionThenPaymentThenWallet ==
  [][\A r \in Reqs :
       ( /\ req[r].kind = "callback" /\ req[r].in.body = "stk"
         /\ req[r].in.ResultCode = 0
         /\ Steps(r) /\ req[r].loc # None )
       => LET pid == req[r].loc.payment.id
              tid == req[r].loc.payment.transactionId
          IN  /\ ( /\ payments'[pid].status = "completed"
                   /\ payments[pid].status # "completed" )
                 => transactions[tid].status = "completed"
              /\ wallets' # wallets
                 => /\ transactions[tid].status = "completed"
                    /\ payments[pid].status = "completed"]_vars

\* The pushes, Transactions and Payments that carry a requestId.
PushesOf(id) == {i \in DOMAIN pushes : pushes[i].requestId = id}

TransactionsOf(id) ==
  {i \in DOMAIN transactions : transactions[i].referenceId = id}

PaymentsOf(id) == {i \in DOMAIN payments : payments[i].requestId = id}

\* C31 (as claimed): a POST /pay call that passed validation has sent at
\* most one push to the provider, and one that was answered with success
\* has sent exactly one and has left exactly one Transaction and exactly
\* one Payment, linked to that Transaction.
C31_OnePushOneTransactionOnePayment ==
  \A r \in Reqs :
    (req[r].kind = "pay" /\ req[r].loc # None) =>
      LET id == req[r].loc.requestId IN
      /\ Cardinality(PushesOf(id)) <= 1
      /\ req[r].exit = "initiated" =>
           /\ Cardinality(PushesOf(id)) = 1
           /\ Cardinality(TransactionsOf(id)) = 1
           /\ Cardinality(PaymentsOf(id)) = 1
           /\ \A j \in PaymentsOf(id) :
                payments[j].transactionId \in TransactionsOf(id)

\* C32 (as claimed): a leave removes the membership before it credits the
\* refund: at the step of a leave that changes the wallet, the user is no
\* longer among the stored players, so that no failure leaves a refunded
\* user registered.
C32_MembershipRemovedBeforeRefund ==
  [][\A r \in Reqs :
       ( /\ req[r].kind = "leave" /\ Steps(r)
         /\ wallets' # wallets )
       => ~isUserRegistered(tournaments[req[r].in.tid], req[r].in.user)]_vars

\* The leave in slot q has saved its refund: it is past its wallet save
\* (its local tournament no longer lists the user) and had a wallet.
LeaveCredited(q) ==
  /\ req[q].kind = "leave" /\ req[q].pc \in {"removePlayer", "done"}
  /\ req[q].loc # None
  /\ "wallet" \in DOMAIN req[q].loc
  /\ ~isUserRegistered(req[q].loc.tournament, req[q].in.user)

\* C33 (as claimed): of the leave requests of one user for one tournament
\* that the user joined once, whether they overlap or one retries the
\* other, at most one saves a refund.
C33_RefundAtMostOncePerJoin ==
  \A r, q \in Reqs :
    ( /\ r # q
      /\ req[r].kind = "leave" /\ req[q].kind = "leave"
      /\ req[r].in = req[q].in
      /\ LeaveCredited(r) )
    => ~LeaveCredited(q)

\* No user is listed twice among the players of a tournament.
NoDuplicatePlayers ==
  \A t \in DOMAIN tournaments :
    \A i, j \in DOMAIN tournaments[t].players :
      tournaments[t].players[i] = tournaments[t].players[j] => i = j

\* C34 (as claimed): of the join requests of one user for one tournament,
\* however they interleave, at most one succeeds (one debit of the entry
\* fee), and the user is listed at most once among the players.
C34_JoinAtMostOnce ==
  /\ NoDuplicatePlayers
  /\ \A r, q \in Reqs :
       ( /\ r # q
         /\ req[r].kind = "join" /\ req[q].kind = "join"
         /\ req[r].in = req[q].in
         /\ req[r].exit = "joined" )
       => req[q].exit # "joined"

\* C35 (as claimed): in every state of a tournament (one in which no user
\* is listed twice), currentPlayers is the number of entries in players
\* and neither exceeds maxPlayers, also when several users join at once
\* for the last free slot.
C35_PlayerCountConsistent ==
  NoDuplicatePlayers =>
    \A t \in DOMAIN tournaments :
      /\ tournaments[t].currentPlayers = Len(tournaments[t].players)
      /\ Len(tournaments[t].players) <= tournaments[t].maxPlayers

\* C36 (as claimed): the lookup of a callback for a push the provider has
\* accepted finds the Payment of that push: it never ends in the
\* acknowledgment for an unknown CheckoutRequestID.
C36_AcceptedPushCallbackFindsPayment ==
  [][\A r \in Reqs :
       ( /\ req[r].kind = "callback" /\ req[r].pc = "findPayment"
         /\ Steps(r)
         /\ \E i \in DOMAIN pushes :
              /\ pushes[i].accepted
              /\ pushes[i].checkoutRequestId = req[r].in.CheckoutRequestID )
       => req'[r].exit # "notFound"]_vars

\* C37 (as claimed): whenever no handler is in progress, every Payment
\* and the Transaction it is linked to agree on the terminal statuses: the
\* Payment is completed exactly if the Transaction is, and failed exactly
\* if the Transaction is.
C37_PaymentAndTransactionAgree ==
  NoneInFlight =>
    \A i \in DOMAIN payments :
      payments[i].transactionId \in DOMAIN transactions =>
        LET t == transactions[payments[i].transactionId] IN
        /\ payments[i].status = "completed" <=> t.status = "completed"
        /\ payments[i].status = "failed" <=> t.status = "failed"

\* The two bodies the callback route answers with.
Acknowledgments == {sendSuccessResponse, Unauthorized}

\* C38: every callback delivery is eventually answered, exactly once: a
\* delivery holds a response exactly when its handler has terminated, the
\* response is one of the two acknowledgments, a terminated handler takes
\* no further step (its response is not sent again or replaced), and
\* every delivery leads to its handler having terminated with a response.
C38_CallbackAcknowledgedOnce ==
  /\ [](\A r \in Reqs :
         req[r].kind = "callback" =>
           /\ req[r].pc = "done" <=> req[r].res # None
           /\ req[r].pc = "done" => req[r].res \in Acknowledgments)
  /\ [][\A r \in Reqs :
         (req[r].kind = "callback" /\ req[r].pc = "done")
         => req'[r] \in {req[r], Idle}]_vars
  /\ \A r \in Reqs :
       (req[r].kind = "callback" /\ req[r].pc # "done")
       ~> (req[r].pc = "done" /\ req[r].res \in Acknowledgments)

\* One delivery was acknowledged from the catch block after a store
\* error, the other after the wallet was credited.
C38_Witness ==
  /\ \E r \in Reqs :
       /\ req[r].kind = "callback" /\ req[r].pc = "done"
       /\ req[r].exit = "catch" /\ req[r].res = sendSuccessResponse
  /\ \E r \in Reqs :
       /\ req[r].kind = "callback" /\ req[r].pc = "done"
       /\ req[r].exit = "processed" /\ req[r].res = sendSuccessResponse

====
